---- MODULE Spec2Model ----
(***************************************************************************)
(* A model of the pixel-avatar generator: the XorShift32 generator and the *)
(* e-mail hash (prng), the palette registry (palettes), the 16x16 pixel    *)
(* buffer (buffer), the feature/drawing engine (engine) and the exporters. *)
(*                                                                         *)
(* JavaScript numbers that the code keeps in 32 bits are modelled as words:*)
(* records [hi, lo] of two 16-bit halves.  TLC's integers are themselves   *)
(* 32-bit, so a word's value is only ever read through its halves (Hi16,   *)
(* Lo16) or reduced modulo a small number.                                 *)
(***************************************************************************)
EXTENDS Integers, Sequences, FiniteSets, TLC

VARIABLES
    \* ---- two XorShift32 objects built from one seed (SpecPrng)
    seedIn,     \* the seed handed to new XorShift32(seed)
    built,      \* the instances whose constructor has run
    state,      \* XorShift32.state of each instance
    draws,      \* the values each instance's next() has returned, in order
    ret,        \* what each instance's latest method call did
    \* ---- emailToSeed on an e-mail and on a re-spelling of it (SpecSeed)
    email,      \* the e-mail string, as character codes
    variant,    \* the same e-mail with whitespace added around it and letters re-cased
    salt,       \* the salt string, as character codes
    edits,      \* how many changes made variant out of email
    seed1,      \* << emailToSeed(email, salt) >> once computed
    seed2,      \* << emailToSeed(variant, salt) >> once computed
    \* ---- the palette registry (SpecPalette)
    lookupName,   \* the name last handed to getPalette
    lookupResult, \* what getPalette returned for it
    roleQuery,    \* the role colour last resolved: [role, k], role "" before any
    resolvedIndex,   \* palette.colors.indexOf(palette[role][k]) for that query
    \* ---- two AvatarEngine objects, each constructed and asked to generate (SpecEngine)
    params,     \* per instance: the seed, palette name, mood and gender it is given
    pc,         \* per instance: the step it performs next
    engine,     \* per instance: the AvatarEngine object (prng, buffer, palette, features)
    \* ---- a buffer painted cell by cell and handed to the encoders (SpecEnc)
    encBuffer,  \* the PixelBuffer
    paints,     \* how many setPixel calls have painted it
    encCall,    \* the encoder call made: its size, bg and paletteName arguments
    encResult,  \* what that toSVG / toPNG call did
    \* ---- one 16x16 PixelBuffer and a caller of its methods (SpecBuffer)
    pixels,     \* the PixelBuffer
    calls,      \* how many of its methods have been called
    lastCall,   \* the latest call: its arguments, the buffer before it, what it returned
    held,       \* the value the caller got from getData(), as the caller has left it
    \* ---- one GET /api/avatar request going through the route handler (SpecHandler)
    request,    \* the query parameters as sent; "" or <<>> for one that is absent
    stage,      \* the statement of GET the request has reached
    accepted,   \* validationResult.data once safeParse has succeeded
    reached,    \* the core functions called for the request so far, in order
    work,       \* the handler's locals: validatedBg, seed, buffer
    response,   \* the response returned: status, content type and body
    \* ---- one call of deflate on the scanline bytes (SpecDeflate)
    deflateCall, \* the call: data.length, whether it has returned, the blocks it returned
    \* ---- one call of drawLine, iteration by iteration (SpecHalt)
    line        \* the call: its arguments, its locals x, y and err, its buffer, its iterations

prngVars == <<seedIn, built, state, draws, ret>>
seedVars == <<email, variant, salt, edits, seed1, seed2>>
palVars == <<lookupName, lookupResult, roleQuery, resolvedIndex>>
engVars == <<params, pc, engine>>
encVars == <<encBuffer, paints, encCall, encResult>>
bufVars == <<pixels, calls, lastCall, held>>
reqVars == <<request, stage, accepted, reached, work, response>>
defVars == <<deflateCall>>
lineVars == <<line>>
vars == <<prngVars, seedVars, palVars, engVars, encVars, bufVars, reqVars, defVars, lineVars>>
\* what each specification leaves alone
notPrngVars == <<seedVars, palVars, engVars, encVars, bufVars, reqVars, defVars, lineVars>>
notSeedVars == <<prngVars, palVars, engVars, encVars, bufVars, reqVars, defVars, lineVars>>
notPalVars == <<prngVars, seedVars, engVars, encVars, bufVars, reqVars, defVars, lineVars>>
notEngVars == <<prngVars, seedVars, palVars, encVars, bufVars, reqVars, defVars, lineVars>>
notEncVars == <<prngVars, seedVars, palVars, engVars, bufVars, reqVars, defVars, lineVars>>
notBufVars == <<prngVars, seedVars, palVars, engVars, encVars, reqVars, defVars, lineVars>>
notReqVars == <<prngVars, seedVars, palVars, engVars, encVars, bufVars, defVars, lineVars>>
notDefVars == <<prngVars, seedVars, palVars, engVars, encVars, bufVars, reqVars, lineVars>>
notLineVars == <<prngVars, seedVars, palVars, engVars, encVars, bufVars, reqVars, defVars>>

Inst == {1, 2}

\* ------------------------------------------------------------- bounds
\* Seeds of the generator runs are 0, SeedStride, 2*SeedStride, .. MaxSeed*SeedStride.
MaxSeed == 3
\* How many draws each generator instance makes.
MaxDraws == 3
\* The longest of the short e-mail strings enumerated.
MaxEmailLen == 2
\* How many changes (a whitespace added, a letter re-cased) make a variant.
MaxEdits == 3
\* engine seeds are SeedOf(0..MaxEngineSeed)
MaxEngineSeed == 1
\* setPixel calls on the buffer handed to the encoders
MaxPaints == 2
\* method calls made on the PixelBuffer of SpecBuffer
MaxCalls == 2

\* The seed of the unit tests (const seed = 12345).
SeedStride == 12345

\* ------------------------------------------------------------- words
\* A 32-bit word is the record of its two 16-bit halves: its unsigned value is
\* hi * 2^16 + lo, its int32 value the same bits read in two's complement.
HalfBits == 16
Half == 65536

FromHalves(hi, lo) == [hi |-> hi, lo |-> lo]
Hi16(w) == w.hi
Lo16(w) == w.lo

ZeroWord == FromHalves(0, 0)

RECURSIVE XorBits(_, _, _)
\* the bitwise exclusive or of the n-bit numbers a and b
XorBits(a, b, n) ==
    IF n = 0 THEN 0
    ELSE IF a = 0 THEN b
    ELSE IF b = 0 THEN a
    ELSE ((a + b) % 2) + 2 * XorBits(a \div 2, b \div 2, n - 1)

\* the exclusive or of two 4-bit numbers, tabulated
Xor4 == [a \in 0..15 |-> [b \in 0..15 |-> XorBits(a, b, 4)]]

\* the exclusive or of two 16-bit numbers, four bits at a time
Xor16(a, b) ==
    Xor4[a % 16][b % 16]
    + 16 * Xor4[(a \div 16) % 16][(b \div 16) % 16]
    + 256 * Xor4[(a \div 256) % 16][(b \div 256) % 16]
    + 4096 * Xor4[a \div 4096][b \div 4096]

\* a ^ b
WXor(a, b) == FromHalves(Xor16(a.hi, b.hi), Xor16(a.lo, b.lo))

\* a << k, kept in 32 bits (0 < k < 16)
WShl(a, k) ==
    FromHalves((a.hi * (2 ^ k) + (a.lo \div (2 ^ (HalfBits - k)))) % Half,
               (a.lo * (2 ^ k)) % Half)

\* a >>> k (16 <= k < 32)
WShr(a, k) == FromHalves(0, a.hi \div (2 ^ (k - HalfBits)))

\* unsigned a < b
ULess(a, b) == a.hi < b.hi \/ (a.hi = b.hi /\ a.lo < b.lo)

\* the sign bit of the int32 value
IsNegative(w) == w.hi >= Half \div 2

\* the unsigned value of w, modulo m (0 < m < 2^15)
UMod(w, m) == ((w.hi % m) * (Half % m) + (w.lo % m)) % m

\* the two's complement of w: -w in 32 bits
WNeg(w) ==
    FromHalves((2 * Half - w.hi - (IF w.lo = 0 THEN 0 ELSE 1)) % Half,
               (Half - w.lo) % Half)

\* JavaScript's x % m for the int32 value of w: it takes the sign of the dividend
SMod(w, m) == IF IsNegative(w) THEN 0 - UMod(WNeg(w), m) ELSE UMod(w, m)

\* ------------------------------------------------------------- XorShift32
\* constructor: this.state = seed === 0 ? 1 : seed >>> 0
XorShift32NoZeroCheck(seed) == seed

XorShift32New(seed) ==
    IF seed = ZeroWord THEN FromHalves(0, 1) ELSE seed

\* next(): the new state; the value returned is the same bits read unsigned
XorShift32Next(s) ==
    LET s1 == WXor(s, WShl(s, 13))
        s2 == WXor(s1, WShr(s1, 17))
    IN WXor(s2, WShl(s2, 5))

\* int(max): next() % max, on the state next() leaves
XorShift32IntSigned(s, max) == SMod(XorShift32Next(s), max)

XorShift32Int(s, max) == UMod(XorShift32Next(s), max)

\* pick(array): array[this.int(array.length)]
XorShift32Pick(s, array) == array[XorShift32Int(s, Len(array)) + 1]

\* as XorShift32Chance, with the state read as the int32 it is stored as
XorShift32ChanceSigned(s, pct) ==
    LET u == XorShift32Next(s)
    IN IF IsNegative(u) THEN 0 < pct * Half + 1
       ELSE Hi16(u) * 100 + (Lo16(u) * 100) \div Half < pct * Half

\* chance(p): next() / 2^32 < p, for p = pct / 100.
\* u * 100 < pct * 2^32 with u = hi * 2^16 + lo, divided through by 2^16.
XorShift32Chance(s, pct) ==
    LET u == XorShift32Next(s)
    IN Hi16(u) * 100 + (Lo16(u) * 100) \div Half < pct * Half

\* the record of a method call, before any call
NoRet == [op |-> "none", max |-> 0, array |-> <<>>, pct |-> 0,
          before |-> ZeroWord, r |-> 0, elem |-> "", ok |-> FALSE]

\* ------------------------------------------------------------- emailToSeed
\* Strings are sequences of UTF-16 character codes.

\* what String.prototype.trim removes: WhiteSpace and LineTerminator
WhitespaceCodes ==
    {9, 10, 11, 12, 13, 32, 160, 5760, 8232, 8233, 8239, 8287, 12288, 65279}
    \cup (8192..8202)

IsWhitespace(c) == c \in WhitespaceCodes

\* the upper-case letters of ASCII and Latin-1, whose lower case is 32 above
IsUpperCode(c) == c \in (65..90) \cup (192..214) \cup (216..222)

\* one character of toLowerCase()
ToLowerCode(c) == IF IsUpperCode(c) THEN c + 32 ELSE c

\* str.toLowerCase()
ToLowerCase(str) == [k \in 1..Len(str) |-> ToLowerCode(str[k])]

RECURSIVE TrimStart(_)
\* str without its leading whitespace
TrimStart(str) ==
    IF str # <<>> /\ IsWhitespace(Head(str)) THEN TrimStart(Tail(str)) ELSE str

RECURSIVE TrimEnd(_)
\* str without its trailing whitespace
TrimEnd(str) ==
    IF str # <<>> /\ IsWhitespace(str[Len(str)])
    THEN TrimEnd(SubSeq(str, 1, Len(str) - 1))
    ELSE str

\* str.trim()
Trim(str) == TrimEnd(TrimStart(str))

\* a + b in 32 bits
WAdd(a, b) ==
    FromHalves((a.hi + b.hi + ((a.lo + b.lo) \div Half)) % Half, (a.lo + b.lo) % Half)

\* one turn of the loop: hash = (hash << 5) - hash + char; hash = hash & hash
HashStep(hash, char) ==
    WAdd(WAdd(WShl(hash, 5), WNeg(hash)), FromHalves(0, char))

\* a value that fits 32 bits
IsWord(w) == w.hi \in 0..(Half - 1) /\ w.lo \in 0..(Half - 1)

RECURSIVE HashFrom(_, _, _)
\* the loop over normalized from index i on; each turn leaves a 32-bit integer
HashFrom(normalized, i, hash) ==
    IF i > Len(normalized) THEN hash
    ELSE LET h == HashStep(hash, normalized[i])
         IN CASE IsWord(h) -> HashFrom(normalized, i + 1, h)

\* Math.abs of the int32 value of w, as an unsigned word (2^31 for -2^31)
WAbs(w) == IF IsNegative(w) THEN WNeg(w) ELSE w

\* emailToSeed with the salt normalized as well: (email + salt).trim().toLowerCase()
emailToSeedSaltNormalized(e, s) ==
    WAbs(HashFrom(ToLowerCase(Trim(e \o s)), 1, ZeroWord))

\* emailToSeed without the trim
emailToSeedUntrimmed(e, s) ==
    WAbs(HashFrom(ToLowerCase(e) \o s, 1, ZeroWord))

\* emailToSeed(email, salt)
emailToSeed(e, s) ==
    WAbs(HashFrom(ToLowerCase(Trim(e)) \o s, 1, ZeroWord))

\* ------------------------------------------------------------- palettes
\* the transparent sentinel of the buffer, and what indexOf returns for a miss
Transparent == -1

nes == [
    kind |-> "Palette", name |-> "NES",
    colors |-> << "#000000", "#FFFFFF", "#880000", "#AAFFEE", "#CC44CC", "#00CC55",
                  "#0000AA", "#EEEE77", "#DD8855", "#664400", "#FF7777", "#333333",
                  "#777777", "#AAFF66", "#0088FF", "#BBBBBB" >>,
    skin |-> <<"#FFDBAC", "#F1C27D", "#E0AC69", "#C68642", "#8D5524", "#654321">>,
    hair |-> <<"#000000", "#654321", "#8D5524", "#D2691E", "#DAA520", "#FFFFFF">>,
    eyes |-> <<"#000000", "#654321", "#0000AA", "#00CC55", "#777777">>,
    clothes |-> <<"#880000", "#0000AA", "#00CC55", "#CC44CC", "#333333">>,
    accent |-> <<"#FFFFFF", "#EEEE77", "#AAFFEE", "#FF7777">> ]

gameboy == [
    kind |-> "Palette", name |-> "Game Boy",
    colors |-> <<"#0F380F", "#306230", "#8BAC0F", "#9BBD0F">>,
    skin |-> <<"#9BBD0F", "#8BAC0F">>,
    hair |-> <<"#0F380F", "#306230">>,
    eyes |-> <<"#0F380F">>,
    clothes |-> <<"#306230", "#0F380F">>,
    accent |-> <<"#9BBD0F", "#8BAC0F">> ]

pastel == [
    kind |-> "Palette", name |-> "Pastel",
    colors |-> << "#FFB3BA", "#FFDFBA", "#FFFFBA", "#BAFFC9", "#BAE1FF", "#E1BAFF",
                  "#FFBAE1", "#C9BAFF" >>,
    skin |-> <<"#FFDFBA", "#FFB3BA", "#FFFFBA">>,
    hair |-> <<"#E1BAFF", "#C9BAFF", "#FFBAE1", "#BAE1FF">>,
    eyes |-> <<"#BAE1FF", "#BAFFC9", "#E1BAFF">>,
    clothes |-> <<"#FFB3BA", "#BAFFC9", "#C9BAFF", "#FFBAE1">>,
    accent |-> <<"#FFFFBA", "#BAFFC9", "#BAE1FF", "#FFBAE1">> ]

\* the own properties of the object literal `palettes`
PaletteNames == {"nes", "gameboy", "pastel"}
palettes == [n \in PaletteNames |->
    CASE n = "nes" -> nes [] n = "gameboy" -> gameboy [] n = "pastel" -> pastel]

\* `palettes` is a plain object: a key it does not own is looked up on
\* Object.prototype, whose properties are functions (or, for __proto__, an object)
ObjectPrototypeKeys == {
    "constructor", "toString", "toLocaleString", "valueOf", "hasOwnProperty",
    "isPrototypeOf", "propertyIsEnumerable", "__proto__", "__defineGetter__",
    "__defineSetter__", "__lookupGetter__", "__lookupSetter__" }

Undefined == [kind |-> "undefined"]

\* palettes[name]
Property(name) ==
    IF name \in PaletteNames THEN palettes[name]
    ELSE IF name \in ObjectPrototypeKeys THEN [kind |-> "builtin", key |-> name]
    ELSE Undefined

\* the truthiness || tests: objects and functions are truthy, undefined is not
Truthy(v) == v.kind # "undefined"

\* getPalette(name): palettes[name] || palettes.nes
getPalette(name) ==
    IF Truthy(Property(name)) THEN Property(name) ELSE palettes["nes"]

RECURSIVE IndexFrom(_, _, _)
\* the least 0-based index >= i - 1 at which array holds v, or -1
IndexFrom(array, v, i) ==
    IF i > Len(array) THEN -1
    ELSE IF array[i] = v THEN i - 1
    ELSE IndexFrom(array, v, i + 1)

\* array.indexOf(v), were a miss answered with array.length
IndexOfMissIsLength(array, v) ==
    IF IndexFrom(array, v, 1) = -1 THEN Len(array) ELSE IndexFrom(array, v, 1)

\* array.indexOf(v)
IndexOf(array, v) == IndexFrom(array, v, 1)

Roles == {"skin", "hair", "eyes", "clothes", "accent"}

\* palette[role]
RoleList(palette, role) ==
    CASE role = "skin" -> palette.skin
      [] role = "hair" -> palette.hair
      [] role = "eyes" -> palette.eyes
      [] role = "clothes" -> palette.clothes
      [] role = "accent" -> palette.accent

\* palette.colors.indexOf(palette[role][k]), k counted from 0
RoleColorIndex(palette, role, k) ==
    IndexOf(palette.colors, RoleList(palette, role)[k + 1])

\* ------------------------------------------------------------- PixelBuffer
\* new PixelBuffer(width, height): every cell transparent
PixelBufferNew(width, height) ==
    [ width |-> width, height |-> height,
      buffer |-> [y \in 0..(height - 1) |-> [x \in 0..(width - 1) |-> Transparent]] ]

\* a buffer value, fully evaluated
IsBuffer(b) == b.width >= 0

\* x >= 0 && x < this.width && y >= 0 && y < this.height
InBounds(b, x, y) == x >= 0 /\ x < b.width /\ y >= 0 /\ y < b.height

\* as setPixel, with coordinates outside the grid moved to the nearest cell
setPixelClamped(b, x, y, colorIndex) ==
    LET cx == IF x < 0 THEN 0 ELSE IF x >= b.width THEN b.width - 1 ELSE x
        cy == IF y < 0 THEN 0 ELSE IF y >= b.height THEN b.height - 1 ELSE y
    IN [b EXCEPT !.buffer[cy][cx] = colorIndex]

\* setPixel(x, y, colorIndex): writes inside the grid, ignores the rest
setPixel(b, x, y, colorIndex) ==
    IF InBounds(b, x, y) THEN [b EXCEPT !.buffer[y][x] = colorIndex] ELSE b

\* getPixel(x, y)
getPixel(b, x, y) ==
    IF InBounds(b, x, y) THEN b.buffer[y][x] ELSE Transparent

RECURSIVE FillRectRow(_, _, _, _, _, _)
\* for (dx; dx < width; dx++) setPixel(x + dx, yy, colorIndex), on the row yy = y + dy
FillRectRow(b, x, yy, width, dx, colorIndex) ==
    IF dx >= width THEN b
    ELSE LET b2 == setPixel(b, x + dx, yy, colorIndex)
         IN CASE IsBuffer(b2) -> FillRectRow(b2, x, yy, width, dx + 1, colorIndex)

RECURSIVE FillRectFrom(_, _, _, _, _, _, _)
\* for (dy; dy < height; dy++) the row loop
FillRectFrom(b, x, y, width, height, dy, colorIndex) ==
    IF dy >= height THEN b
    ELSE LET b2 == FillRectRow(b, x, y + dy, width, 0, colorIndex)
         IN CASE IsBuffer(b2) -> FillRectFrom(b2, x, y, width, height, dy + 1, colorIndex)

\* fillRect(x, y, width, height, colorIndex)
fillRect(b, x, y, width, height, colorIndex) ==
    FillRectFrom(b, x, y, width, height, 0, colorIndex)

Abs(n) == IF n < 0 THEN -n ELSE n

RECURSIVE DrawLineFrom(_, _, _, _, _, _, _, _, _, _, _)
\* the while (true) loop of drawLine at (x, y) with error term err
DrawLineFrom(b, x, y, x1, y1, dx, dy, sx, sy, err, colorIndex) ==
    LET b2 == setPixel(b, x, y, colorIndex)
        e2 == 2 * err
        stepX == e2 > -dy
        stepY == e2 < dx
        err2 == err - (IF stepX THEN dy ELSE 0) + (IF stepY THEN dx ELSE 0)
        x2 == IF stepX THEN x + sx ELSE x
        y2 == IF stepY THEN y + sy ELSE y
    IN  IF x = x1 /\ y = y1 THEN b2
        ELSE CASE IsBuffer(b2) ->
                 DrawLineFrom(b2, x2, y2, x1, y1, dx, dy, sx, sy, err2, colorIndex)

\* as drawLine, with the loop left before the cell (x1, y1) is set
drawLineOpenEnd(b, x0, y0, x1, y1, colorIndex) ==
    LET dx == Abs(x1 - x0)
        dy == Abs(y1 - y0)
        sx == IF x0 < x1 THEN 1 ELSE -1
        sy == IF y0 < y1 THEN 1 ELSE -1
        r == DrawLineFrom(b, x0, y0, x1, y1, dx, dy, sx, sy, dx - dy, colorIndex)
    IN IF InBounds(b, x1, y1) THEN [r EXCEPT !.buffer[y1][x1] = b.buffer[y1][x1]] ELSE r

\* drawLine(x0, y0, x1, y1, colorIndex)
drawLine(b, x0, y0, x1, y1, colorIndex) ==
    LET dx == Abs(x1 - x0)
        dy == Abs(y1 - y0)
        sx == IF x0 < x1 THEN 1 ELSE -1
        sy == IF y0 < y1 THEN 1 ELSE -1
    IN DrawLineFrom(b, x0, y0, x1, y1, dx, dy, sx, sy, dx - dy, colorIndex)

RECURSIVE FillCircleRow(_, _, _, _, _, _, _)
\* for (x; x <= radius; x++) the distance test and setPixel, y fixed
FillCircleRow(b, centerX, centerY, radius, y, x, colorIndex) ==
    IF x > radius THEN b
    ELSE LET b2 == IF x * x + y * y <= radius * radius
                   THEN setPixel(b, centerX + x, centerY + y, colorIndex)
                   ELSE b
         IN CASE IsBuffer(b2) ->
                FillCircleRow(b2, centerX, centerY, radius, y, x + 1, colorIndex)

RECURSIVE FillCircleFrom(_, _, _, _, _, _)
\* for (y; y <= radius; y++) the row loop
FillCircleFrom(b, centerX, centerY, radius, y, colorIndex) ==
    IF y > radius THEN b
    ELSE LET b2 == FillCircleRow(b, centerX, centerY, radius, y, -radius, colorIndex)
         IN CASE IsBuffer(b2) ->
                FillCircleFrom(b2, centerX, centerY, radius, y + 1, colorIndex)

\* as fillCircle, with the strict test x * x + y * y < radius * radius
fillCircleStrict(b, centerX, centerY, radius, colorIndex) ==
    [b EXCEPT !.buffer = [y \in 0..(b.height - 1) |-> [x \in 0..(b.width - 1) |->
        IF (x - centerX) * (x - centerX) + (y - centerY) * (y - centerY) < radius * radius
        THEN colorIndex ELSE b.buffer[y][x]]]]

\* fillCircle(centerX, centerY, radius, colorIndex)
fillCircle(b, centerX, centerY, radius, colorIndex) ==
    FillCircleFrom(b, centerX, centerY, radius, -radius, colorIndex)

RECURSIVE MirrorRow(_, _, _, _)
\* for (x; x < midX; x++) buffer[y][width - 1 - x] = buffer[y][x]
MirrorRow(b, y, x, midX) ==
    IF x >= midX THEN b
    ELSE LET b2 == [b EXCEPT !.buffer[y][b.width - 1 - x] = b.buffer[y][x]]
         IN CASE IsBuffer(b2) -> MirrorRow(b2, y, x + 1, midX)

RECURSIVE MirrorFrom(_, _, _)
MirrorFrom(b, y, midX) ==
    IF y >= b.height THEN b
    ELSE LET b2 == MirrorRow(b, y, 0, midX)
         IN CASE IsBuffer(b2) -> MirrorFrom(b2, y + 1, midX)

\* as mirrorVertically, with the painted cells of the right half kept
mirrorVerticallyKeepPainted(b) ==
    [b EXCEPT !.buffer = [y \in 0..(b.height - 1) |-> [x \in 0..(b.width - 1) |->
        IF x >= b.width - (b.width \div 2) /\ b.buffer[y][x] = Transparent
        THEN b.buffer[y][b.width - 1 - x] ELSE b.buffer[y][x]]]]

\* mirrorVertically(): the left half copied onto the right half
mirrorVertically(b) == MirrorFrom(b, 0, b.width \div 2)

\* getData(): a copy of the rows
getData(b) == [y \in 0..(b.height - 1) |-> [x \in 0..(b.width - 1) |-> b.buffer[y][x]]]

\* as getDataArrays, were the rows handed out uncopied: this.buffer.map((row) => row)
getDataRowsShared(b) == [list |-> "new", rows |-> "shared"]

\* Which arrays of the value getData() returns are newly allocated and which are
\* the buffer's own: map() allocates the row list and [...row] each row.
getDataArrays(b) == [list |-> "new", rows |-> "new"]

RECURSIVE ClearRow(_, _, _)
\* for (x; x < width; x++) buffer[y][x] = -1
ClearRow(b, y, x) ==
    IF x >= b.width THEN b
    ELSE LET b2 == [b EXCEPT !.buffer[y][x] = Transparent]
         IN CASE IsBuffer(b2) -> ClearRow(b2, y, x + 1)

RECURSIVE ClearFrom(_, _)
ClearFrom(b, y) ==
    IF y >= b.height THEN b
    ELSE LET b2 == ClearRow(b, y, 0)
         IN CASE IsBuffer(b2) -> ClearFrom(b2, y + 1)

\* clear()
clear(b) == ClearFrom(b, 0)

\* ------------------------------------------------------------- AvatarEngine
\* An engine object is a record of its four fields: prng (the XorShift32
\* state), buffer, palette and features.  An optional feature that the code
\* leaves undefined holds NoFeature.
NoFeature == "undefined"

JawShapes == <<"round", "square", "pointed">>
EyeShapes == <<"normal", "smile", "wink", "closed", "wide", "surprised">>
BrowShapes == <<"thin", "thick", "angry", "curved">>
NoseShapes == <<"dot", "line", "T">>
MouthShapes == <<"neutral", "smile", "teeth", "open", "wow", "flat">>
HairStyles == <<"short", "medium", "long", "bald", "bun", "afro", "undercut">>
FacialHairs == <<"stubble", "mustache", "goatee">>
GlassesKinds == <<"round", "square">>
HatKinds == <<"cap", "beanie">>
ClothesStyles == <<"collar", "hoodie", "tshirt">>

Moods == {"neutral", "smile", "wink", "surprised", "angry"}
Genders == {"auto", "androgynous", "masc", "fem"}

\* the properties of the object literal generateFeatures returns, in the order
\* their initialisers run
FeatureOrder == <<
    "skinTone", "jawShape", "eyeShape", "browShape", "noseShape", "mouthShape",
    "hairStyle", "hairColor", "facialHair", "glasses", "earrings", "hat",
    "clothesStyle", "clothesColor" >>

\* the features field before generateFeatures has filled it
NoFeatures == [
    skinTone |-> 0, jawShape |-> NoFeature, eyeShape |-> NoFeature,
    browShape |-> NoFeature, noseShape |-> NoFeature, mouthShape |-> NoFeature,
    hairStyle |-> NoFeature, hairColor |-> 0, facialHair |-> NoFeature,
    accessories |-> [glasses |-> NoFeature, earrings |-> FALSE, hat |-> NoFeature],
    clothesStyle |-> NoFeature, clothesColor |-> 0 ]

\* a draw: the value drawn and the generator state after it
Drew(v, s) == [v |-> v, prng |-> s]

\* this.prng.int(max)
DrawInt(s, max) == Drew(XorShift32Int(s, max), XorShift32Next(s))

\* this.prng.pick(array)
DrawPick(s, array) == Drew(XorShift32Pick(s, array), XorShift32Next(s))

\* this.prng.chance(pct / 100)
DrawChance(s, pct) == Drew(XorShift32Chance(s, pct), XorShift32Next(s))

\* this.prng.chance(pct / 100) ? this.prng.pick(array) : undefined, were the
\* pick evaluated whether or not the chance succeeded
DrawChanceAlwaysPick(s, pct, array) ==
    IF XorShift32Chance(s, pct)
    THEN DrawPick(XorShift32Next(s), array)
    ELSE Drew(NoFeature, XorShift32Next(XorShift32Next(s)))

\* this.prng.chance(pct / 100) ? this.prng.pick(array) : undefined
DrawChanceThenPick(s, pct, array) ==
    IF XorShift32Chance(s, pct)
    THEN DrawPick(XorShift32Next(s), array)
    ELSE Drew(NoFeature, XorShift32Next(s))

\* the initialiser of one property of the features literal
FeatureDraw(palette, field, s) ==
    CASE field = "skinTone" -> DrawInt(s, Len(palette.skin))
      [] field = "jawShape" -> DrawPick(s, JawShapes)
      [] field = "eyeShape" -> DrawPick(s, EyeShapes)
      [] field = "browShape" -> DrawPick(s, BrowShapes)
      [] field = "noseShape" -> DrawPick(s, NoseShapes)
      [] field = "mouthShape" -> DrawPick(s, MouthShapes)
      [] field = "hairStyle" -> DrawPick(s, HairStyles)
      [] field = "hairColor" -> DrawInt(s, Len(palette.hair))
      [] field = "facialHair" -> DrawChanceThenPick(s, 30, FacialHairs)
      [] field = "glasses" -> DrawChanceThenPick(s, 25, GlassesKinds)
      [] field = "earrings" -> DrawChance(s, 15)
      [] field = "hat" -> DrawChanceThenPick(s, 20, HatKinds)
      [] field = "clothesStyle" -> DrawPick(s, ClothesStyles)
      [] field = "clothesColor" -> DrawInt(s, Len(palette.clothes))

\* the features with one property set; glasses, earrings and hat live in accessories
SetFeature(features, field, v) ==
    IF field \in {"glasses", "earrings", "hat"}
    THEN [features EXCEPT !.accessories[field] = v]
    ELSE [features EXCEPT ![field] = v]

\* a features value, fully evaluated
IsFeatures(features) == features.skinTone >= 0

RECURSIVE GenerateFeaturesFrom(_, _, _, _)
\* the initialisers from the i-th on; d is the i-th draw, evaluated once
GenerateFeaturesFrom(palette, i, features, s) ==
    IF i > Len(FeatureOrder) THEN [features |-> features, prng |-> s]
    ELSE CHOOSE r \in
           { GenerateFeaturesFrom(palette, i + 1,
                                  SetFeature(features, FeatureOrder[i], d.v), d.prng) :
               d \in {FeatureDraw(palette, FeatureOrder[i], s)} } : TRUE

\* generateFeatures(): the features and the generator state it leaves
generateFeatures(palette, s) == GenerateFeaturesFrom(palette, 1, NoFeatures, s)

\* new AvatarEngine(seed, paletteName); palette.skin.length throws a TypeError
\* when getPalette returned something that is not a palette
AvatarEngineNew(seed, paletteName) ==
    LET palette == getPalette(paletteName)
        g == generateFeatures(palette, XorShift32New(seed))
    IN  IF palette.kind # "Palette" THEN [threw |-> TRUE]
        ELSE [ threw |-> FALSE, prng |-> g.prng, buffer |-> PixelBufferNew(16, 16),
               palette |-> palette, features |-> g.features ]

\* an engine value, fully evaluated
IsEngine(this) == IsWord(this.prng) /\ IsBuffer(this.buffer) /\ IsFeatures(this.features)

\* applyMood(mood), were the angry case to leave the eyes as they were selected
applyMoodAngryKeepsEye(this, mood) ==
    LET s == this.prng
        f == this.features
        d1(array) == DrawPick(s, array)
    IN CASE mood = "smile" ->
              [this EXCEPT !.features = [f EXCEPT !.mouthShape = "smile",
                                                  !.eyeShape = d1(<<"normal", "smile">>).v],
                           !.prng = XorShift32Next(s)]
         [] mood = "wink" ->
              [this EXCEPT !.features = [f EXCEPT !.eyeShape = "wink",
                                                  !.mouthShape = d1(<<"smile", "neutral">>).v],
                           !.prng = XorShift32Next(s)]
         [] mood = "surprised" ->
              [this EXCEPT !.features = [f EXCEPT !.eyeShape = "wide",
                                                  !.mouthShape = "open",
                                                  !.browShape = d1(<<"thin", "curved">>).v],
                           !.prng = XorShift32Next(s)]
         [] mood = "angry" ->
              [this EXCEPT !.features = [f EXCEPT !.browShape = "angry",
                                                  !.mouthShape = d1(<<"flat", "neutral">>).v],
                           !.prng = XorShift32Next(s)]
         [] OTHER -> this

\* applyMood(mood)
applyMood(this, mood) ==
    LET s == this.prng
        f == this.features
        d1(array) == DrawPick(s, array)
        d2(array) == DrawPick(XorShift32Next(s), array)
    IN CASE mood = "smile" ->
              [this EXCEPT !.features = [f EXCEPT !.mouthShape = "smile",
                                                  !.eyeShape = d1(<<"normal", "smile">>).v],
                           !.prng = XorShift32Next(s)]
         [] mood = "wink" ->
              [this EXCEPT !.features = [f EXCEPT !.eyeShape = "wink",
                                                  !.mouthShape = d1(<<"smile", "neutral">>).v],
                           !.prng = XorShift32Next(s)]
         [] mood = "surprised" ->
              [this EXCEPT !.features = [f EXCEPT !.eyeShape = "wide",
                                                  !.mouthShape = "open",
                                                  !.browShape = d1(<<"thin", "curved">>).v],
                           !.prng = XorShift32Next(s)]
         [] mood = "angry" ->
              [this EXCEPT !.features = [f EXCEPT !.browShape = "angry",
                                                  !.mouthShape = d1(<<"flat", "neutral">>).v,
                                                  !.eyeShape = d2(<<"normal", "closed">>).v],
                           !.prng = XorShift32Next(XorShift32Next(s))]
         [] OTHER -> this

\* applyGender(gender), were the masc restyle to choose among short, undercut
\* and afro
applyGenderMascAfro(this, gender) ==
    LET s == this.prng
        f == this.features
        restyle(pct, array) ==
            IF XorShift32Chance(s, pct)
            THEN DrawPick(XorShift32Next(s), array)
            ELSE Drew(f.hairStyle, XorShift32Next(s))
    IN CASE gender = "fem" ->
              LET h == restyle(70, <<"medium", "long", "bun">>)
                  e == DrawChance(h.prng, 40)
              IN [this EXCEPT !.features = [f EXCEPT !.hairStyle = h.v,
                                                     !.accessories.earrings = e.v],
                              !.prng = e.prng]
         [] gender = "masc" ->
              LET h == restyle(60, <<"short", "undercut", "afro">>)
                  fh == DrawChanceThenPick(h.prng, 50, FacialHairs)
              IN [this EXCEPT !.features = [f EXCEPT !.hairStyle = h.v,
                                                     !.facialHair = fh.v],
                              !.prng = fh.prng]
         [] OTHER -> this

\* applyGender(gender)
applyGender(this, gender) ==
    LET s == this.prng
        f == this.features
        restyle(pct, array) ==
            IF XorShift32Chance(s, pct)
            THEN DrawPick(XorShift32Next(s), array)
            ELSE Drew(f.hairStyle, XorShift32Next(s))
    IN CASE gender = "fem" ->
              LET h == restyle(70, <<"medium", "long", "bun">>)
                  e == DrawChance(h.prng, 40)
              IN [this EXCEPT !.features = [f EXCEPT !.hairStyle = h.v,
                                                     !.accessories.earrings = e.v],
                              !.prng = e.prng]
         [] gender = "masc" ->
              LET h == restyle(60, <<"short", "undercut", "bald">>)
                  fh == DrawChanceThenPick(h.prng, 50, FacialHairs)
              IN [this EXCEPT !.features = [f EXCEPT !.hairStyle = h.v,
                                                     !.facialHair = fh.v],
                              !.prng = fh.prng]
         [] OTHER -> this

\* this.palette.colors.indexOf(this.palette.skin[this.features.skinTone])
SkinIndex(this) == RoleColorIndex(this.palette, "skin", this.features.skinTone)

\* this.palette.colors.indexOf(this.palette.hair[this.features.hairColor])
HairColorIndex(this) == RoleColorIndex(this.palette, "hair", this.features.hairColor)

\* this.palette.colors.indexOf(this.palette.clothes[this.features.clothesColor])
ClothesColorIndex(this) ==
    RoleColorIndex(this.palette, "clothes", this.features.clothesColor)

\* drawHead()
drawHead(this) ==
    LET b == this.buffer
        skinIndex == SkinIndex(this)
        jawShape == this.features.jawShape
    IN [this EXCEPT !.buffer =
          CASE jawShape = "round" -> fillCircle(b, 8, 7, 5, skinIndex)
            [] jawShape = "square" -> fillRect(b, 4, 3, 8, 8, skinIndex)
            [] jawShape = "pointed" ->
                 fillRect(fillCircle(b, 8, 6, 5, skinIndex), 6, 10, 4, 1, skinIndex)
            [] OTHER -> b]

\* drawNeck()
drawNeck(this) ==
    [this EXCEPT !.buffer = fillRect(this.buffer, 6, 11, 4, 2, SkinIndex(this))]

\* drawShoulders()
drawShoulders(this) ==
    LET skinIndex == SkinIndex(this)
    IN [this EXCEPT !.buffer =
          fillRect(fillRect(this.buffer, 2, 13, 4, 3, skinIndex), 10, 13, 4, 3, skinIndex)]

\* drawShirt(); the tshirt case draws chance(0.3)
drawShirt(this) ==
    LET b == this.buffer
        clothesColorIndex == ClothesColorIndex(this)
        accentColor == RoleColorIndex(this.palette, "accent", 0)
        clothesStyle == this.features.clothesStyle
    IN CASE clothesStyle = "collar" ->
              LET b1 == fillRect(b, 3, 13, 10, 3, clothesColorIndex)
                  b2 == drawLine(b1, 6, 12, 9, 12, accentColor)
                  b3 == setPixel(b2, 7, 13, accentColor)
              IN [this EXCEPT !.buffer = setPixel(b3, 8, 14, accentColor)]
         [] clothesStyle = "hoodie" ->
              LET b1 == fillRect(b, 2, 13, 12, 3, clothesColorIndex)
                  b2 == setPixel(b1, 6, 12, accentColor)
                  b3 == setPixel(b2, 9, 12, accentColor)
              IN [this EXCEPT !.buffer = drawLine(b3, 5, 15, 10, 15, accentColor)]
         [] clothesStyle = "tshirt" ->
              LET b1 == fillRect(b, 3, 13, 10, 3, clothesColorIndex)
                  b2 == setPixel(b1, 8, 14, accentColor)
                  b3 == setPixel(b2, 7, 15, accentColor)
                  b4 == setPixel(b3, 9, 15, accentColor)
              IN [this EXCEPT !.buffer = IF XorShift32Chance(this.prng, 30) THEN b4 ELSE b1,
                              !.prng = XorShift32Next(this.prng)]
         [] OTHER -> this

\* drawEyes(); the colour is drawn with int(eyes.length)
drawEyes(this) ==
    LET b == this.buffer
        eyeColor == RoleColorIndex(this.palette, "eyes",
                                   XorShift32Int(this.prng, Len(this.palette.eyes)))
        leftEyeX == 5
        rightEyeX == 10
        eyeY == 6
        eyeShape == this.features.eyeShape
    IN [this EXCEPT
          !.prng = XorShift32Next(this.prng),
          !.buffer =
            CASE eyeShape = "normal" ->
                   setPixel(setPixel(b, leftEyeX, eyeY, eyeColor), rightEyeX, eyeY, eyeColor)
              [] eyeShape = "smile" ->
                   setPixel(setPixel(b, leftEyeX, eyeY + 1, eyeColor),
                            rightEyeX, eyeY + 1, eyeColor)
              [] eyeShape = "wink" ->
                   drawLine(setPixel(b, leftEyeX, eyeY, eyeColor),
                            rightEyeX - 1, eyeY, rightEyeX + 1, eyeY, eyeColor)
              [] eyeShape = "closed" ->
                   drawLine(drawLine(b, leftEyeX - 1, eyeY, leftEyeX + 1, eyeY, eyeColor),
                            rightEyeX - 1, eyeY, rightEyeX + 1, eyeY, eyeColor)
              [] eyeShape = "wide" ->
                   fillRect(fillRect(b, leftEyeX - 1, eyeY, 2, 2, eyeColor),
                            rightEyeX - 1, eyeY, 2, 2, eyeColor)
              [] eyeShape = "surprised" ->
                   fillCircle(fillCircle(b, leftEyeX, eyeY, 1, eyeColor),
                              rightEyeX, eyeY, 1, eyeColor)
              [] OTHER -> b]

\* drawBrows()
drawBrows(this) ==
    LET b == this.buffer
        browColor == 0
        leftBrowX == 5
        rightBrowX == 10
        browY == 4
        browShape == this.features.browShape
    IN [this EXCEPT !.buffer =
          CASE browShape = "thin" ->
                 setPixel(setPixel(b, leftBrowX, browY, browColor),
                          rightBrowX, browY, browColor)
            [] browShape = "thick" ->
                 fillRect(fillRect(b, leftBrowX - 1, browY, 2, 1, browColor),
                          rightBrowX - 1, browY, 2, 1, browColor)
            [] browShape = "angry" ->
                 drawLine(drawLine(b, leftBrowX - 1, browY + 1, leftBrowX + 1, browY - 1,
                                   browColor),
                          rightBrowX - 1, browY - 1, rightBrowX + 1, browY + 1, browColor)
            [] browShape = "curved" ->
                 LET b1 == setPixel(b, leftBrowX - 1, browY, browColor)
                     b2 == setPixel(b1, leftBrowX, browY - 1, browColor)
                     b3 == setPixel(b2, leftBrowX + 1, browY, browColor)
                     b4 == setPixel(b3, rightBrowX - 1, browY, browColor)
                     b5 == setPixel(b4, rightBrowX, browY - 1, browColor)
                 IN setPixel(b5, rightBrowX + 1, browY, browColor)
            [] OTHER -> b]

\* drawNose()
drawNose(this) ==
    LET b == this.buffer
        noseColor == 0
        noseX == 8
        noseY == 8
        noseShape == this.features.noseShape
    IN [this EXCEPT !.buffer =
          CASE noseShape = "dot" -> setPixel(b, noseX, noseY, noseColor)
            [] noseShape = "line" ->
                 drawLine(b, noseX, noseY - 1, noseX, noseY + 1, noseColor)
            [] noseShape = "T" ->
                 drawLine(drawLine(b, noseX, noseY - 1, noseX, noseY + 1, noseColor),
                          noseX - 1, noseY + 1, noseX + 1, noseY + 1, noseColor)
            [] OTHER -> b]

\* drawMouth()
drawMouth(this) ==
    LET b == this.buffer
        mouthColor == 0
        mouthX == 8
        mouthY == 11
        mouthShape == this.features.mouthShape
    IN [this EXCEPT !.buffer =
          CASE mouthShape = "neutral" ->
                 drawLine(b, mouthX - 1, mouthY, mouthX + 1, mouthY, mouthColor)
            [] mouthShape = "smile" ->
                 setPixel(setPixel(setPixel(b, mouthX - 1, mouthY, mouthColor),
                                   mouthX, mouthY - 1, mouthColor),
                          mouthX + 1, mouthY, mouthColor)
            [] mouthShape = "teeth" ->
                 setPixel(drawLine(b, mouthX - 2, mouthY, mouthX + 2, mouthY, mouthColor),
                          mouthX, mouthY + 1, 1)
            [] mouthShape = "open" -> fillRect(b, mouthX - 1, mouthY, 2, 2, mouthColor)
            [] mouthShape = "wow" -> fillCircle(b, mouthX, mouthY, 1, mouthColor)
            [] mouthShape = "flat" ->
                 drawLine(b, mouthX - 2, mouthY, mouthX + 2, mouthY, mouthColor)
            [] OTHER -> b]

\* drawHair(); a hat lowers the hair by one row
drawHair(this) ==
    LET b == this.buffer
        hairColorIndex == HairColorIndex(this)
        hasHat == this.features.accessories.hat # NoFeature
        hairHeight == IF hasHat THEN 2 ELSE 3
        hairStyle == this.features.hairStyle
    IN [this EXCEPT !.buffer =
          CASE hairStyle = "short" -> fillRect(b, 4, 1, 8, hairHeight, hairColorIndex)
            [] hairStyle = "medium" ->
                 LET b1 == fillRect(b, 3, 1, 10, hairHeight + 1, hairColorIndex)
                     b2 == fillRect(b1, 2, 4, 2, 2, hairColorIndex)
                 IN fillRect(b2, 12, 4, 2, 2, hairColorIndex)
            [] hairStyle = "long" ->
                 LET b1 == fillRect(b, 3, 1, 10, hairHeight + 1, hairColorIndex)
                     b2 == fillRect(b1, 1, 4, 3, 4, hairColorIndex)
                 IN fillRect(b2, 12, 4, 3, 4, hairColorIndex)
            [] hairStyle = "bald" -> b
            [] hairStyle = "bun" ->
                 fillCircle(fillRect(b, 4, 1, 8, 2, hairColorIndex), 8, 0, 1, hairColorIndex)
            [] hairStyle = "afro" -> fillCircle(b, 8, 3, 5, hairColorIndex)
            [] hairStyle = "undercut" ->
                 LET b1 == fillRect(b, 5, 1, 6, 3, hairColorIndex)
                     b2 == fillRect(b1, 3, 4, 2, 1, hairColorIndex)
                 IN fillRect(b2, 11, 4, 2, 1, hairColorIndex)
            [] OTHER -> b]

RECURSIVE StubbleFrom(_, _, _)
\* for (i; i < 8; i++) if (chance(0.3)) setPixel(4 + int(8), 12 + int(2), hairColorIndex)
StubbleFrom(this, i, hairColorIndex) ==
    IF i >= 8 THEN this
    ELSE LET s1 == XorShift32Next(this.prng)
             s2 == XorShift32Next(s1)
             x == 4 + XorShift32Int(s1, 8)
             y == 12 + XorShift32Int(s2, 2)
             t == IF XorShift32Chance(this.prng, 30)
                  THEN [this EXCEPT !.buffer = setPixel(this.buffer, x, y, hairColorIndex),
                                    !.prng = XorShift32Next(s2)]
                  ELSE [this EXCEPT !.prng = s1]
         IN CASE IsEngine(t) -> StubbleFrom(t, i + 1, hairColorIndex)

\* drawFacialHair()
drawFacialHair(this) ==
    LET hairColorIndex == HairColorIndex(this)
        facialHair == this.features.facialHair
    IN CASE facialHair = "stubble" -> StubbleFrom(this, 0, hairColorIndex)
         [] facialHair = "mustache" ->
              [this EXCEPT !.buffer = fillRect(this.buffer, 6, 9, 4, 1, hairColorIndex)]
         [] facialHair = "goatee" ->
              [this EXCEPT !.buffer = fillRect(this.buffer, 7, 12, 2, 2, hairColorIndex)]
         [] OTHER -> this

\* the glasses block of drawAccessories
DrawGlasses(this, b) ==
    LET accessoryColor == 0
        glassesY == 6
        glasses == this.features.accessories.glasses
        framed ==
          CASE glasses = "round" ->
                 LET b1 == fillCircle(b, 5, glassesY, 2, accessoryColor)
                     b2 == fillCircle(b1, 10, glassesY, 2, accessoryColor)
                     b3 == setPixel(b2, 5, glassesY, Transparent)
                 IN setPixel(b3, 10, glassesY, Transparent)
            [] glasses = "square" ->
                 LET b1 == fillRect(b, 3, glassesY - 1, 4, 3, accessoryColor)
                     b2 == fillRect(b1, 9, glassesY - 1, 4, 3, accessoryColor)
                     b3 == fillRect(b2, 4, glassesY, 2, 1, Transparent)
                 IN fillRect(b3, 10, glassesY, 2, 1, Transparent)
            [] OTHER -> b
    IN IF glasses # NoFeature
       THEN drawLine(framed, 7, glassesY, 8, glassesY, accessoryColor)
       ELSE b

\* the earrings block of drawAccessories
DrawEarrings(this, b) ==
    IF this.features.accessories.earrings
    THEN setPixel(setPixel(b, 3, 7, 0), 12, 7, 0)
    ELSE b

\* the hat block of drawAccessories
DrawHat(this, b) ==
    LET hatColor == ClothesColorIndex(this)
        hat == this.features.accessories.hat
    IN CASE hat = "cap" -> fillRect(fillRect(b, 3, 0, 10, 3, hatColor), 1, 2, 4, 1, hatColor)
         [] hat = "beanie" -> fillRect(b, 4, 0, 8, 4, hatColor)
         [] OTHER -> b

\* drawAccessories(): glasses, then earrings, then hat
drawAccessories(this) ==
    LET b1 == DrawGlasses(this, this.buffer)
        b2 == DrawEarrings(this, b1)
    IN [this EXCEPT !.buffer = DrawHat(this, b2)]

\* addAsymmetry, first block, were the earring taken off both ears
RemoveEarringBothSides(this) ==
    IF this.features.accessories.earrings
    THEN [this EXCEPT !.prng = XorShift32Next(this.prng),
                      !.buffer = IF XorShift32Chance(this.prng, 30)
                                 THEN setPixel(setPixel(this.buffer, 12, 7, Transparent),
                                               3, 7, Transparent)
                                 ELSE this.buffer]
    ELSE this

\* addAsymmetry, first block: the right earring removed
RemoveEarring(this) ==
    IF this.features.accessories.earrings
    THEN [this EXCEPT !.prng = XorShift32Next(this.prng),
                      !.buffer = IF XorShift32Chance(this.prng, 30)
                                 THEN setPixel(this.buffer, 12, 7, Transparent)
                                 ELSE this.buffer]
    ELSE this

\* addAsymmetry, second block: a beauty mark
BeautyMark(this) ==
    LET s1 == XorShift32Next(this.prng)
        s2 == XorShift32Next(s1)
        x == 4 + XorShift32Int(s1, 8)
        y == 7 + XorShift32Int(s2, 4)
    IN IF XorShift32Chance(this.prng, 10)
       THEN [this EXCEPT !.prng = XorShift32Next(s2),
                         !.buffer = setPixel(this.buffer, x, y, 0)]
       ELSE [this EXCEPT !.prng = s1]

\* addAsymmetry, third block: a hair pixel on the left side
HairVariation(this) ==
    LET s1 == XorShift32Next(this.prng)
        s2 == XorShift32Next(s1)
        x == 2 + XorShift32Int(s1, 2)
        y == 3 + XorShift32Int(s2, 3)
    IN IF this.features.hairStyle = "bald" THEN this
       ELSE IF XorShift32Chance(this.prng, 20)
       THEN [this EXCEPT !.prng = XorShift32Next(s2),
                         !.buffer = setPixel(this.buffer, x, y, HairColorIndex(this))]
       ELSE [this EXCEPT !.prng = s1]

\* addAsymmetry()
addAsymmetry(this) ==
    LET t1 == RemoveEarring(this)
        t2 == BeautyMark(t1)
    IN CASE IsEngine(t1) /\ IsEngine(t2) -> HairVariation(t2)

\* the calls of generate, were the neck drawn before the shirt
GenerateOrderNeckFirst == <<
    "applyMood", "applyGender", "clear", "drawShoulders", "drawNeck", "drawShirt",
    "drawHead", "drawHair", "drawBrows", "drawEyes", "drawNose", "drawMouth",
    "drawFacialHair", "drawAccessories", "mirrorVertically", "addAsymmetry" >>

\* the steps of generate(mood, gender), in the order the method performs them
GenerateOrder == <<
    "applyMood", "applyGender", "clear", "drawShoulders", "drawShirt", "drawNeck",
    "drawHead", "drawHair", "drawBrows", "drawEyes", "drawNose", "drawMouth",
    "drawFacialHair", "drawAccessories", "mirrorVertically", "addAsymmetry" >>

\* one step of generate
GenerateStep(this, step, mood, gender) ==
    CASE step = "applyMood" -> applyMood(this, mood)
      [] step = "applyGender" -> applyGender(this, gender)
      [] step = "clear" -> [this EXCEPT !.buffer = clear(this.buffer)]
      [] step = "drawShoulders" -> drawShoulders(this)
      [] step = "drawShirt" -> drawShirt(this)
      [] step = "drawNeck" -> drawNeck(this)
      [] step = "drawHead" -> drawHead(this)
      [] step = "drawHair" -> drawHair(this)
      [] step = "drawBrows" -> drawBrows(this)
      [] step = "drawEyes" -> drawEyes(this)
      [] step = "drawNose" -> drawNose(this)
      [] step = "drawMouth" -> drawMouth(this)
      [] step = "drawFacialHair" -> drawFacialHair(this)
      [] step = "drawAccessories" -> drawAccessories(this)
      [] step = "mirrorVertically" ->
           [this EXCEPT !.buffer = mirrorVertically(this.buffer)]
      [] step = "addAsymmetry" -> addAsymmetry(this)

RECURSIVE GenerateFrom(_, _, _, _)
\* the steps of generate from the k-th on
GenerateFrom(this, k, mood, gender) ==
    IF k > Len(GenerateOrder) THEN this
    ELSE CHOOSE r \in { GenerateFrom(t, k + 1, mood, gender) :
                            t \in {GenerateStep(this, GenerateOrder[k], mood, gender)} } :
            TRUE

\* generate(mood, gender): the engine afterwards; its buffer is what is returned
generate(this, mood, gender) == GenerateFrom(this, 1, mood, gender)

\* ------------------------------------------------------------- exporters
\* What an encoder call did: `failed` says an exception was raised inside it,
\* `threw` that the exception reached the caller; otherwise `out` is the
\* document returned.  SVG text and PNG bytes are kept as the structure they
\* spell out: the root element's attributes, the background, the <rect>
\* elements; the PNG chunks with their fields.  Lengths in the SVG are the
\* quotients the code computes, kept as reduced fractions.

RECURSIVE Gcd(_, _)
Gcd(a, b) == IF b = 0 THEN a ELSE Gcd(b, a % b)

\* the number n / d
Ratio(n, d) == [num |-> n \div Gcd(n, d), den |-> d \div Gcd(n, d)]

NoOut == [kind |-> "none"]

\* an uncaught exception
Threw(fn) == [fn |-> fn, failed |-> TRUE, threw |-> TRUE, out |-> NoOut]

RECURSIVE RunWidthOverProcessed(_, _, _, _, _, _, _)
\* the horizontal run, were it to run on over cells already processed
RunWidthOverProcessed(data, processed, bufWidth, x, y, colorIndex, width) ==
    IF /\ x + width < bufWidth
       /\ data[y][x + width] = colorIndex
    THEN RunWidthOverProcessed(data, processed, bufWidth, x, y, colorIndex, width + 1)
    ELSE width

RECURSIVE RunWidth(_, _, _, _, _, _, _)
\* while (x + width < buffer.width && data[y][x + width] === colorIndex
\*        && !processed[y][x + width]) width++
RunWidth(data, processed, bufWidth, x, y, colorIndex, width) ==
    IF /\ x + width < bufWidth
       /\ data[y][x + width] = colorIndex
       /\ <<x + width, y>> \notin processed
    THEN RunWidth(data, processed, bufWidth, x, y, colorIndex, width + 1)
    ELSE width

RECURSIVE RunHeight(_, _, _, _, _, _, _, _)
\* while (y + height < buffer.height && canExtendVertically): the next row
\* extends the run when all its `width` cells have the colour and are unprocessed
RunHeight(data, processed, bufHeight, x, y, width, colorIndex, height) ==
    IF /\ y + height < bufHeight
       /\ \A dx \in 0..(width - 1) :
            /\ data[y + height][x + dx] = colorIndex
            /\ <<x + dx, y + height>> \notin processed
    THEN RunHeight(data, processed, bufHeight, x, y, width, colorIndex, height + 1)
    ELSE height

\* the scan of toSVG so far, fully evaluated
IsScan(acc) == acc.threw \in BOOLEAN

\* the body of the scan loop of toSVG at cell (x, y).  palette.colors[colorIndex]
\* is a TypeError when the palette has no colors list, and undefined when the
\* index is past its end.
SvgCell(acc, data, palette, size, bufWidth, bufHeight, x, y) ==
    IF acc.threw \/ <<x, y>> \in acc.processed \/ data[y][x] = Transparent THEN acc
    ELSE IF palette.kind # "Palette" THEN [acc EXCEPT !.threw = TRUE]
    ELSE LET colorIndex == data[y][x]
             color == IF colorIndex < Len(palette.colors)
                      THEN palette.colors[colorIndex + 1] ELSE "undefined"
             width == RunWidth(data, acc.processed, bufWidth, x, y, colorIndex, 1)
             height == RunHeight(data, acc.processed, bufHeight, x, y, width, colorIndex, 1)
         IN [acc EXCEPT
               !.processed = @ \cup {<<x + dx, y + dy>> :
                                        dx \in 0..(width - 1), dy \in 0..(height - 1)},
               !.rects = Append(@, [ x |-> Ratio(x * size, bufWidth),
                                     y |-> Ratio(y * size, bufWidth),
                                     width |-> Ratio(width * size, bufWidth),
                                     height |-> Ratio(height * size, bufWidth),
                                     color |-> color ])]

RECURSIVE SvgRow(_, _, _, _, _, _, _, _)
\* for (x; x < buffer.width; x++)
SvgRow(acc, data, palette, size, bufWidth, bufHeight, x, y) ==
    IF x >= bufWidth THEN acc
    ELSE LET a2 == SvgCell(acc, data, palette, size, bufWidth, bufHeight, x, y)
         IN CASE IsScan(a2) ->
                SvgRow(a2, data, palette, size, bufWidth, bufHeight, x + 1, y)

RECURSIVE SvgScan(_, _, _, _, _, _, _)
\* for (y; y < buffer.height; y++)
SvgScan(acc, data, palette, size, bufWidth, bufHeight, y) ==
    IF y >= bufHeight THEN acc
    ELSE LET a2 == SvgRow(acc, data, palette, size, bufWidth, bufHeight, 0, y)
         IN CASE IsScan(a2) ->
                SvgScan(a2, data, palette, size, bufWidth, bufHeight, y + 1)

\* the background toSVG writes before the rectangles
SvgBackground(size, bg, bufWidth) ==
    IF bg = "transparent" THEN [kind |-> "none"]
    ELSE IF bg = "pattern"
    THEN [kind |-> "pattern", tile |-> Ratio(2 * size, bufWidth)]
    ELSE [kind |-> "fill", fill |-> bg]

\* as SvgRootAttributes, with the root sized to its container
SvgRootAttributesFluid(size) ==
    << <<"width", "100%">>, <<"height", "100%">>,
       <<"viewBox", "0 0 " \o ToString(size) \o " " \o ToString(size)>>,
       <<"xmlns", "http://www.w3.org/2000/svg">>,
       <<"shapeRendering", "crispEdges">> >>

\* the attributes of the root element as the template literal spells them, in
\* order: name and quoted value, ${size} printed as a decimal number
SvgRootAttributes(size) ==
    << <<"width", ToString(size)>>, <<"height", ToString(size)>>,
       <<"viewBox", "0 0 " \o ToString(size) \o " " \o ToString(size)>>,
       <<"xmlns", "http://www.w3.org/2000/svg">>,
       <<"shapeRendering", "crispEdges">> >>

\* the tags of the document in the order they are appended to the string: the
\* opening root tag, the background, one <rect for each rectangle, the closing tag
SvgTags(bg, rects) ==
    <<"<svg">>
    \o (IF bg = "transparent" THEN <<>>
        ELSE IF bg = "pattern"
        THEN <<"<defs>", "<pattern", "<rect", "<rect", "<rect", "<rect",
               "</pattern>", "</defs>", "<rect">>
        ELSE <<"<rect">>)
    \o [k \in 1..Len(rects) |-> "<rect"]
    \o <<"</svg>">>

\* toSVG(buffer, size, bg, paletteName); nothing in it catches an exception
toSVG(b, size, bg, paletteName) ==
    LET palette == getPalette(paletteName)
        scan == SvgScan([threw |-> FALSE, processed |-> {}, rects |-> <<>>],
                        getData(b), palette, size, b.width, b.height, 0)
    IN  IF scan.threw THEN Threw("toSVG")
        ELSE [ fn |-> "toSVG", failed |-> FALSE, threw |-> FALSE,
               out |-> [ kind |-> "svg",
                         tags |-> SvgTags(bg, scan.rects),
                         attributes |-> SvgRootAttributes(size),
                         root |-> [ width |-> size, height |-> size,
                                    viewBox |-> <<0, 0, size, size>>,
                                    xmlns |-> "http://www.w3.org/2000/svg",
                                    shapeRendering |-> "crispEdges" ],
                         background |-> SvgBackground(size, bg, b.width),
                         rects |-> scan.rects ] ]

\* A bitmap pixel: its red, green and blue bytes kept as the "#RRGGBB" string
\* that spells them, and its alpha byte.
Rgba(rgb, a) == [rgb |-> rgb, a |-> a]

\* the four zero bytes of a fresh Uint8Array
ZeroPixel == Rgba("#000000", 0)

\* the colour strings that are "#" and six upper-case hex digits
HexColors ==
    UNION {{p.colors[k] : k \in 1..Len(p.colors)} : p \in {nes, gameboy, pastel}}
    \cup {"#FF0000"}

\* hexToRgba(hex): the parsed colour, opaque; opaque black for what does not parse
hexToRgba(hex) ==
    IF hex \in HexColors THEN Rgba(hex, 255) ELSE Rgba("#000000", 255)

\* the background toPNG fills the bitmap with, at pixel (x, y)
PngBackground(bg, pixelSize, x, y) ==
    IF bg = "transparent" THEN ZeroPixel
    ELSE IF bg = "pattern"
    THEN IF ((x \div pixelSize) + (y \div pixelSize)) % 2 = 0
         THEN Rgba("#F0F0F0", 255) ELSE Rgba("#DCDCDC", 255)
    ELSE hexToRgba(bg)

\* the bitmap, were an index past the end of the flat list painted like any
\* other: palette.colors[colorIndex] is undefined, which hexToRgba makes black
PngBitmapNoRangeCheck(data, bufWidth, bufHeight, palette, bg, pixelSize) ==
    LET actualSize == pixelSize * bufWidth
    IN [fy \in 0..(actualSize - 1) |-> [fx \in 0..(actualSize - 1) |->
          LET x == fx \div pixelSize
              y == fy \div pixelSize
              colorIndex == IF y < bufHeight THEN data[y][x] ELSE Transparent
          IN IF colorIndex < 0
             THEN PngBackground(bg, pixelSize, fx, fy)
             ELSE IF colorIndex >= Len(palette.colors) THEN Rgba("#000000", 255)
             ELSE hexToRgba(palette.colors[colorIndex + 1])]]

\* the bitmap toPNG builds: the background, then each cell of the buffer that
\* holds an index of the palette's flat list scaled to a pixelSize square
PngBitmap(data, bufWidth, bufHeight, palette, bg, pixelSize) ==
    LET actualSize == pixelSize * bufWidth
    IN [fy \in 0..(actualSize - 1) |-> [fx \in 0..(actualSize - 1) |->
          LET x == fx \div pixelSize
              y == fy \div pixelSize
              colorIndex == IF y < bufHeight THEN data[y][x] ELSE Transparent
          IN IF colorIndex < 0 \/ colorIndex >= Len(palette.colors)
             THEN PngBackground(bg, pixelSize, fx, fy)
             ELSE hexToRgba(palette.colors[colorIndex + 1])]]

RECURSIVE DeflateFromNeverFinal(_, _)
\* as DeflateFrom, with isLast computed as i + blockSize > data.length
DeflateFromNeverFinal(length, i) ==
    IF i >= length THEN <<>>
    ELSE LET blockSize == IF length - i < 65535 THEN length - i ELSE 65535
             isLast == i + blockSize > length
         IN <<[ final |-> IF isLast THEN 1 ELSE 0, len |-> blockSize,
                nlen |-> 65535 - blockSize, from |-> i, size |-> blockSize + 5 ]>>
            \o DeflateFromNeverFinal(length, i + 65535)

RECURSIVE DeflateFrom(_, _)
\* deflate(data) on length bytes from offset i: stored blocks of at most 65535
\* bytes, each with its BFINAL bit, LEN and NLEN
DeflateFrom(length, i) ==
    IF i >= length THEN <<>>
    ELSE LET blockSize == IF length - i < 65535 THEN length - i ELSE 65535
             isLast == i + blockSize >= length
         IN <<[ final |-> IF isLast THEN 1 ELSE 0, len |-> blockSize,
                nlen |-> 65535 - blockSize, from |-> i, size |-> blockSize + 5 ]>>
            \o DeflateFrom(length, i + 65535)

\* as generatePNG, with the file closed after the IDAT chunk
generatePNGNoEnd(data, width, height) ==
    [ kind |-> "png",
      segments |-> <<"signature", "ihdr", "idat">>,
      signature |-> <<137, 80, 78, 71, 13, 10, 26, 10>>,
      ihdr |-> [ length |-> 13, width |-> width, height |-> height, bitDepth |-> 8,
                 colorType |-> 6, compression |-> 0, filter |-> 0, interlace |-> 0 ],
      imageData |-> [y \in 0..(height - 1) |-> [filter |-> 0, pixels |-> data[y]]],
      idat |-> DeflateFrom((width * 4 + 1) * height, 0),
      iend |-> <<0, 0, 0, 0, 73, 69, 78, 68, 174, 66, 96, 130>> ]

\* generatePNG(data, width, height): the buffers built, and in `segments` the
\* order in which Buffer.concat joins them into the file
generatePNG(data, width, height) ==
    [ kind |-> "png",
      segments |-> <<"signature", "ihdr", "idat", "iend">>,
      signature |-> <<137, 80, 78, 71, 13, 10, 26, 10>>,
      ihdr |-> [ length |-> 13, width |-> width, height |-> height, bitDepth |-> 8,
                 colorType |-> 6, compression |-> 0, filter |-> 0, interlace |-> 0 ],
      imageData |-> [y \in 0..(height - 1) |-> [filter |-> 0, pixels |-> data[y]]],
      idat |-> DeflateFrom((width * 4 + 1) * height, 0),
      iend |-> <<0, 0, 0, 0, 73, 69, 78, 68, 174, 66, 96, 130>> ]

\* toPNG(buffer, size, bg, paletteName): a value of getPalette that has no colors
\* list raises "Invalid buffer data or palette", which the catch block answers
\* with generatePNG of one transparent pixel
toPNG(b, size, bg, paletteName) ==
    LET palette == getPalette(paletteName)
        floor == size \div b.width
        pixelSize == IF floor > 1 THEN floor ELSE 1
        actualSize == pixelSize * b.width
        fallbackData == [y \in {0} |-> [x \in {0} |-> ZeroPixel]]
    IN  IF palette.kind # "Palette"
        THEN [ fn |-> "toPNG", failed |-> TRUE, threw |-> FALSE,
               out |-> generatePNG(fallbackData, 1, 1) ]
        ELSE [ fn |-> "toPNG", failed |-> FALSE, threw |-> FALSE,
               out |-> generatePNG(PngBitmap(getData(b), b.width, b.height, palette,
                                             bg, pixelSize),
                                   actualSize, actualSize) ]

\* ------------------------------------------------------------- idle parts
\* The part of the state a specification does not use stays as constructed.
SeedIdle ==
    /\ email = <<>> /\ variant = <<>> /\ salt = <<>>
    /\ edits = 0 /\ seed1 = <<>> /\ seed2 = <<>>

\* the engine variable of an instance not yet constructed
NoEngine == [
    threw |-> FALSE, prng |-> ZeroWord, buffer |-> PixelBufferNew(16, 16),
    palette |-> nes, features |-> NoFeatures ]

NoParams == [seed |-> ZeroWord, paletteName |-> "nes", mood |-> "neutral", gender |-> "auto"]

EngIdle ==
    /\ params = [i \in Inst |-> NoParams]
    /\ pc = [i \in Inst |-> "idle"]
    /\ engine = [i \in Inst |-> NoEngine]

\* no encoder call yet
NoCall == [fn |-> "none", failed |-> FALSE, threw |-> FALSE, out |-> NoOut]

NoArgs == [size |-> 0, bg |-> "", paletteName |-> ""]

EncIdle ==
    /\ encBuffer = PixelBufferNew(1, 1) /\ paints = 0
    /\ encCall = NoArgs /\ encResult = NoCall

\* no method of the buffer called yet
NoBufCall == [ op |-> "none", x |-> 0, y |-> 0, x1 |-> 0, y1 |-> 0, radius |-> 0,
               colorIndex |-> Transparent, before |-> PixelBufferNew(1, 1),
               out |-> Transparent ]

\* nothing obtained from getData() yet
NoHeld == [taken |-> FALSE, list |-> "", rows |-> "", data |-> <<>>, changed |-> FALSE]

BufIdle ==
    /\ pixels = PixelBufferNew(1, 1) /\ calls = 0
    /\ lastCall = NoBufCall /\ held = NoHeld

\* no request yet
NoRequest == [ email |-> <<>>, size |-> <<>>, palette |-> "", bg |-> "", engine |-> "",
               mood |-> "", gender |-> "", seed_salt |-> <<>>, format |-> "" ]

\* the handler's locals before they are assigned
NoWork == [validatedBg |-> "", seed |-> ZeroWord, buffer |-> PixelBufferNew(1, 1)]

\* no response returned yet
NoResponse == [status |-> 0, contentType |-> "", body |-> [kind |-> "none"]]

ReqIdle ==
    /\ request = NoRequest /\ stage = "idle" /\ accepted = NoRequest
    /\ reached = <<>> /\ work = NoWork /\ response = NoResponse

PalIdle ==
    /\ lookupName = "" /\ lookupResult = Undefined
    /\ roleQuery = [role |-> "", k |-> 0] /\ resolvedIndex = Transparent

PrngIdle ==
    /\ seedIn = ZeroWord /\ built = {}
    /\ state = [i \in Inst |-> ZeroWord]
    /\ draws = [i \in Inst |-> <<>>]
    /\ ret = [i \in Inst |-> NoRet]

\* no deflate call yet
NoDeflate == [length |-> 0, returned |-> FALSE, blocks |-> <<>>]

DefIdle == deflateCall = NoDeflate

\* no drawLine call yet
NoLine == [ x0 |-> 0, y0 |-> 0, x1 |-> 0, y1 |-> 0, colorIndex |-> Transparent,
            x |-> 0, y |-> 0, err |-> 0, iterations |-> 0, running |-> FALSE,
            called |-> FALSE, buffer |-> PixelBufferNew(1, 1) ]

LineIdle == line = NoLine

\* ------------------------------------------------------------- SpecPrng
\* Two XorShift32 objects are built from the same seed and used independently.

\* the seeds tried: multiples of the unit tests' seed (0 among them), 2^32 - 1,
\* and 0x5E6CFCE7, the state whose next() is 2^32 - 1
SeedOf(k) == FromHalves((k * SeedStride) \div Half, (k * SeedStride) % Half)
Seeds ==
    {SeedOf(k) : k \in 0..MaxSeed}
    \cup {FromHalves(Half - 1, Half - 1), FromHalves(24172, 64743)}

\* the arguments the engine and the unit tests pass to int(), pick() and chance()
IntMaxes == {1, 2, 3, 6, 10}
PickArrays == {
    <<"round", "square", "pointed">>,
    <<"cap", "beanie">>,
    <<"a", "b", "c", "d", "e">> }
ChancePcts == {0, 30, 50, 100}

PrngInit ==
    /\ SeedIdle /\ PalIdle /\ EngIdle /\ EncIdle /\ BufIdle /\ ReqIdle /\ DefIdle /\ LineIdle
    /\ seedIn \in Seeds
    /\ built = {}
    /\ state = [i \in Inst |-> ZeroWord]
    /\ draws = [i \in Inst |-> <<>>]
    /\ ret = [i \in Inst |-> NoRet]

\* new XorShift32(seed)
RngNew(i) ==
    /\ i \notin built
    /\ built' = built \cup {i}
    /\ state' = [state EXCEPT ![i] = XorShift32New(seedIn)]
    /\ UNCHANGED <<seedIn, draws, ret, notPrngVars>>

CanDraw(i) == i \in built /\ Len(draws[i]) < MaxDraws

\* as Drawn, with the generator state kept in one place shared by all instances
DrawnShared(i) ==
    /\ state' = [j \in Inst |-> XorShift32Next(state[i])]
    /\ draws' = [draws EXCEPT ![i] = Append(@, XorShift32Next(state[i]))]
    /\ UNCHANGED <<seedIn, built, notPrngVars>>

\* the state and the log after one more next() of instance i
Drawn(i) ==
    /\ state' = [state EXCEPT ![i] = XorShift32Next(state[i])]
    /\ draws' = [draws EXCEPT ![i] = Append(@, XorShift32Next(state[i]))]
    /\ UNCHANGED <<seedIn, built, notPrngVars>>

\* prng.next()
RngNext(i) ==
    /\ CanDraw(i)
    /\ Drawn(i)
    /\ ret' = [ret EXCEPT ![i] = [NoRet EXCEPT !.op = "next", !.before = state[i]]]

\* prng.int(max)
RngInt(i, max) ==
    /\ CanDraw(i)
    /\ Drawn(i)
    /\ ret' = [ret EXCEPT ![i] = [NoRet EXCEPT !.op = "int", !.before = state[i],
                    !.max = max, !.r = XorShift32Int(state[i], max)]]

\* prng.pick(array)
RngPick(i, array) ==
    /\ CanDraw(i)
    /\ Drawn(i)
    /\ ret' = [ret EXCEPT ![i] = [NoRet EXCEPT !.op = "pick", !.before = state[i],
                    !.array = array, !.elem = XorShift32Pick(state[i], array)]]

\* prng.chance(p)
RngChance(i, pct) ==
    /\ CanDraw(i)
    /\ Drawn(i)
    /\ ret' = [ret EXCEPT ![i] = [NoRet EXCEPT !.op = "chance", !.before = state[i],
                    !.pct = pct, !.ok = XorShift32Chance(state[i], pct)]]

PrngNext ==
    \E i \in Inst :
        \/ RngNew(i)
        \/ RngNext(i)
        \/ \E max \in IntMaxes : RngInt(i, max)
        \/ \E array \in PickArrays : RngPick(i, array)
        \/ \E pct \in ChancePcts : RngChance(i, pct)

SpecPrng == PrngInit /\ [][PrngNext]_vars

\* the value of the latest next() of instance i
LastDraw(i) == draws[i][Len(draws[i])]

\* the unsigned value of w modulo m, by Horner's rule on the two halves
RefMod(w, m) == ((w.hi % m) * Half + w.lo) % m

\* C5: whatever the seed (0 included), the state of a constructed XorShift32 is
\* never zero, and every value next() returned is an integer in [1, 2^32 - 1].
C5_StateNeverZero ==
    \A i \in built :
        /\ IsWord(state[i]) /\ state[i] # ZeroWord
        /\ \A k \in 1..Len(draws[i]) : IsWord(draws[i][k]) /\ draws[i][k] # ZeroWord

\* the zero seed has been used and drawn from as often as the bound allows
C5_Witness == seedIn = ZeroWord /\ 1 \in built /\ Len(draws[1]) = MaxDraws

\* C6: two XorShift32 objects built from the same seed return the same value on
\* their k-th call of next(), for every k both have reached.
C6_SameSequence ==
    \A k \in 1..MaxDraws :
        (k <= Len(draws[1]) /\ k <= Len(draws[2])) => draws[1][k] = draws[2][k]

\* both instances have drawn, one after the other has finished
C6_Witness ==
    /\ Len(draws[1]) = MaxDraws /\ Len(draws[2]) = MaxDraws
    /\ seedIn = SeedOf(1)

\* C10: int(max) returns r with 0 <= r < max, r = next() mod max, having made
\* exactly one draw; pick(array) returns the element at index int(length).
C10_IntAndPick ==
    \A i \in built :
        /\ ret[i].op = "int" =>
              /\ ret[i].r \in 0..(ret[i].max - 1)
              /\ ret[i].r = RefMod(LastDraw(i), ret[i].max)
              /\ state[i] = XorShift32Next(ret[i].before)
        /\ ret[i].op = "pick" =>
              /\ \E k \in 1..Len(ret[i].array) : ret[i].elem = ret[i].array[k]
              /\ ret[i].elem = ret[i].array[RefMod(LastDraw(i), Len(ret[i].array)) + 1]
              /\ state[i] = XorShift32Next(ret[i].before)

\* int(10) on a state whose int32 value is negative, and a pick beside it
C10_Witness ==
    /\ ret[1].op = "int" /\ ret[1].max = 10 /\ IsNegative(state[1]) /\ ret[1].r > 0
    /\ ret[2].op = "pick" /\ Len(ret[2].array) = 5

\* C11: chance(0) returns false and chance(1) returns true whatever the state,
\* and a call of chance leaves the state one next() after the state before it.
C11_ChanceExtremes ==
    \A i \in built :
        ret[i].op = "chance" =>
            /\ ret[i].pct = 0 => ~ret[i].ok
            /\ ret[i].pct = 100 => ret[i].ok
            /\ state[i] = XorShift32Next(ret[i].before)
            /\ LastDraw(i) = state[i]

\* chance(1) on the draw 2^32 - 1, the largest quotient below 1, and chance(0)
\* on the same draw by the other instance
C11_Witness ==
    /\ ret[1].op = "chance" /\ ret[1].pct = 100 /\ ret[1].ok
    /\ LastDraw(1) = FromHalves(Half - 1, Half - 1)
    /\ ret[2].op = "chance" /\ ret[2].pct = 0 /\ ~ret[2].ok
    /\ Len(draws[2]) = 1

\* ------------------------------------------------------------- SpecSeed
\* emailToSeed is applied to an e-mail and to a re-spelling of it.

\* 'a', 'Z', '@' and e-acute
EmailChars == {97, 90, 64, 233}
\* space and tab
PadChars == {32, 9}

\* "Test@Example.Com", the mixed-case address of the unit tests
TestEmail == <<84, 101, 115, 116, 64, 69, 120, 97, 109, 112, 108, 101, 46, 67, 111, 109>>

\* every string over EmailChars of length 1..MaxEmailLen, and the test address
Emails ==
    UNION {[1..n -> EmailChars] : n \in 1..MaxEmailLen} \cup {TestEmail}

\* "", "salt", " Salt " (spaces around, an upper-case letter) and "Pepper-2024"
Salts == {
    <<>>,
    <<115, 97, 108, 116>>,
    <<32, 83, 97, 108, 116, 32>>,
    <<80, 101, 112, 112, 101, 114, 45, 50, 48, 50, 52>> }

\* the other case of a letter; any other character as it is
ToggleCode(c) ==
    IF IsUpperCode(c) THEN c + 32
    ELSE IF IsUpperCode(c - 32) THEN c - 32
    ELSE c

SeedInit ==
    /\ PrngIdle /\ PalIdle /\ EngIdle /\ EncIdle /\ BufIdle /\ ReqIdle /\ DefIdle /\ LineIdle
    /\ email \in Emails
    /\ variant = email
    /\ salt \in Salts
    /\ edits = 0
    /\ seed1 = <<>>
    /\ seed2 = <<>>

CanEdit == edits < MaxEdits /\ seed2 = <<>>

\* whitespace is added in front of the variant
PadLeft(c) ==
    /\ CanEdit
    /\ variant' = <<c>> \o variant
    /\ edits' = edits + 1
    /\ UNCHANGED <<email, salt, seed1, seed2, notSeedVars>>

\* whitespace is added behind the variant
PadRight(c) ==
    /\ CanEdit
    /\ variant' = Append(variant, c)
    /\ edits' = edits + 1
    /\ UNCHANGED <<email, salt, seed1, seed2, notSeedVars>>

\* the letter at position k of the variant changes case
ToggleCase(k) ==
    /\ CanEdit
    /\ ToggleCode(variant[k]) # variant[k]
    /\ variant' = [variant EXCEPT ![k] = ToggleCode(@)]
    /\ edits' = edits + 1
    /\ UNCHANGED <<email, salt, seed1, seed2, notSeedVars>>

\* seed1 = emailToSeed(email, salt); seed2 = emailToSeed(variant, salt)
HashBoth ==
    /\ seed2 = <<>>
    /\ seed1' = <<emailToSeed(email, salt)>>
    /\ seed2' = <<emailToSeed(variant, salt)>>
    /\ UNCHANGED <<email, variant, salt, edits, notSeedVars>>

SeedNext ==
    \/ \E c \in PadChars : PadLeft(c)
    \/ \E c \in PadChars : PadRight(c)
    \/ \E k \in 1..Len(variant) : ToggleCase(k)
    \/ HashBoth

SpecSeed == SeedInit /\ [][SeedNext]_vars

\* H := 31 * H + c in 32 bits
Fold31Step(h, c) ==
    FromHalves((h.hi * 31 + ((h.lo * 31 + c) \div Half)) % Half, (h.lo * 31 + c) % Half)

RECURSIVE Fold31(_, _)
\* the fold of Fold31Step over str, from h
Fold31(str, h) ==
    IF str = <<>> THEN h
    ELSE LET g == Fold31Step(h, Head(str))
         IN CASE IsWord(g) -> Fold31(Tail(str), g)

\* w <= 2^31
AtMost2to31(w) == w.hi < Half \div 2 \/ (w.hi = Half \div 2 /\ w.lo = 0)

\* the int32 value of w is negative and its absolute value is what `abs` holds
IsAbsOf(abs, w) == IF IsNegative(w) THEN WAdd(abs, w) = ZeroWord ELSE abs = w

C9_HashValue ==
    seed1 # <<>> =>
        /\ IsAbsOf(seed1[1], Fold31(Trim(ToLowerCase(email)) \o salt, ZeroWord))
        /\ IsAbsOf(seed2[1], Fold31(Trim(ToLowerCase(variant)) \o salt, ZeroWord))
        /\ AtMost2to31(seed1[1]) /\ AtMost2to31(seed2[1])

\* a hash that wrapped to a negative int32, under a salt that trimming and
\* lower-casing would change
C9_Witness ==
    /\ seed2 # <<>>
    /\ salt = <<32, 83, 97, 108, 116, 32>>
    /\ IsNegative(Fold31(Trim(ToLowerCase(variant)) \o salt, ZeroWord))
    /\ variant # email

\* ------------------------------------------------------------- SpecPalette
\* getPalette is called with a name, then role colours of the palette it
\* returned are resolved to indexes of the flat list as the engine does.

\* registered names, names of no property, and names Object.prototype answers
LookupNames ==
    PaletteNames \cup {"", "c64", "NES", "Pastel"}
    \cup {"constructor", "toString", "__proto__", "valueOf"}

PaletteInit ==
    /\ PrngIdle /\ SeedIdle /\ PalIdle /\ EngIdle /\ EncIdle /\ BufIdle /\ ReqIdle /\ DefIdle /\ LineIdle

\* palette = getPalette(name)
GetPalette(name) ==
    /\ lookupName' = name
    /\ lookupResult' = getPalette(name)
    /\ roleQuery' = [role |-> "", k |-> 0]
    /\ resolvedIndex' = Transparent
    /\ UNCHANGED notPalVars

\* palette.colors.indexOf(palette[role][k]) on the palette looked up
ResolveRole(role, k) ==
    /\ lookupResult.kind = "Palette"
    /\ k < Len(RoleList(lookupResult, role))
    /\ roleQuery' = [role |-> role, k |-> k]
    /\ resolvedIndex' = RoleColorIndex(lookupResult, role, k)
    /\ UNCHANGED <<lookupName, lookupResult, notPalVars>>

PaletteNext ==
    \/ \E name \in LookupNames : GetPalette(name)
    \/ \E role \in Roles, k \in 0..5 : ResolveRole(role, k)

SpecPalette == PaletteInit /\ [][PaletteNext]_vars

\* C2: in every registered palette every entry of the five role sublists is a
\* member of the flat colors list: resolving it gives an index in [0, colors.length).
C2_RoleColorsInFlatList ==
    (lookupName \in PaletteNames /\ roleQuery.role # "") =>
        resolvedIndex \in 0..(Len(lookupResult.colors) - 1)

\* C4: for every name that is not a registered palette name, getPalette returns
\* the nes palette record.
C4_FallbackToNes ==
    (lookupName # "" /\ lookupName \notin PaletteNames) => lookupResult = nes

\* ------------------------------------------------------------- SpecEnc
\* A small buffer is painted with setPixel and then handed once to toSVG or to
\* toPNG with a size, a background and a palette name.

\* width and height of the buffers
EncShapes == {<<2, 2>>, <<3, 2>>}

\* indexes into a flat list, the last one past the end of the shortest list
EncColors == {0, 1, 5}

EncSizes == {2, 3, 6}
EncBackgrounds == {"transparent", "pattern", "#FF0000"}

\* registered names, a name of no property, and names Object.prototype answers
EncPaletteNames == {"nes", "gameboy", "c64", "constructor", "toString"}

EncInit ==
    /\ PrngIdle /\ SeedIdle /\ PalIdle /\ EngIdle /\ BufIdle /\ ReqIdle /\ DefIdle /\ LineIdle
    /\ \E shape \in EncShapes : encBuffer = PixelBufferNew(shape[1], shape[2])
    /\ paints = 0
    /\ encCall = NoArgs
    /\ encResult = NoCall

\* buffer.setPixel(x, y, colorIndex)
Paint(x, y, colorIndex) ==
    /\ paints < MaxPaints
    /\ encResult = NoCall
    /\ InBounds(encBuffer, x, y)
    /\ encBuffer' = setPixel(encBuffer, x, y, colorIndex)
    /\ paints' = paints + 1
    /\ UNCHANGED <<encCall, encResult, notEncVars>>

\* toSVG(buffer, size, bg, paletteName)
ToSVG(size, bg, paletteName) ==
    /\ encResult = NoCall
    /\ encCall' = [size |-> size, bg |-> bg, paletteName |-> paletteName]
    /\ encResult' = toSVG(encBuffer, size, bg, paletteName)
    /\ UNCHANGED <<encBuffer, paints, notEncVars>>

\* toPNG(buffer, size, bg, paletteName)
ToPNG(size, bg, paletteName) ==
    /\ encResult = NoCall
    /\ encCall' = [size |-> size, bg |-> bg, paletteName |-> paletteName]
    /\ encResult' = toPNG(encBuffer, size, bg, paletteName)
    /\ UNCHANGED <<encBuffer, paints, notEncVars>>

EncNext ==
    \/ \E x \in 0..2, y \in 0..1, colorIndex \in EncColors : Paint(x, y, colorIndex)
    \/ \E size \in EncSizes, bg \in EncBackgrounds, paletteName \in EncPaletteNames :
         \/ ToSVG(size, bg, paletteName)
         \/ ToPNG(size, bg, paletteName)

SpecEnc == EncInit /\ [][EncNext]_vars

\* a 1x1 image, fully transparent, in the format of the encoder called
IsPlaceholder(r) ==
    \/ /\ r.fn = "toSVG" /\ r.out.kind = "svg"
       /\ r.out.root.width = 1 /\ r.out.root.height = 1
       /\ r.out.background.kind = "none" /\ r.out.rects = <<>>
    \/ /\ r.fn = "toPNG" /\ r.out.kind = "png"
       /\ r.out.ihdr.width = 1 /\ r.out.ihdr.height = 1
       /\ r.out.imageData[0].pixels[0].a = 0

\* the bytes the file starts with: those of its first segment, when that is the
\* signature (the chunks after it carry CRCs, which are not computed here)
PngHead(png) ==
    IF png.segments[1] = "signature" THEN png.signature ELSE <<>>

\* the bytes the file ends with: those of its last segment, when that is IEND
PngTail(png) ==
    IF png.segments[Len(png.segments)] = "iend" THEN png.iend ELSE <<>>

\* C17: whatever the buffer, size, background and palette, the output of toPNG
\* begins with the bytes 89 50 4E 47 0D 0A 1A 0A and ends with the bytes
\* 00 00 00 00 49 45 4E 44 AE 42 60 82, on the normal path and on the fallback
\* path of the 1x1 placeholder.
C17_PngSignatureAndEnd ==
    encResult.fn = "toPNG" =>
        /\ ~encResult.threw
        /\ encResult.out.kind = "png"
        /\ PngHead(encResult.out) = <<137, 80, 78, 71, 13, 10, 26, 10>>
        /\ PngTail(encResult.out) = <<0, 0, 0, 0, 73, 69, 78, 68, 174, 66, 96, 130>>

\* toPNG took its fallback path on a painted buffer
C17_Witness ==
    /\ encResult.fn = "toPNG" /\ encResult.failed
    /\ encResult.out.ihdr.width = 1
    /\ paints > 0

\* the values the root element gives for the attribute called name
AttributeValues(out, name) ==
    {out.attributes[k][2] : k \in {j \in 1..Len(out.attributes) : out.attributes[j][1] = name}}

\* C18: whatever the buffer and the size, the document toSVG returns starts with
\* the opening "<svg" root tag, ends with "</svg>", and its root element
\* declares width and height attributes both equal to the requested size.
C18_SvgRootSized ==
    (encResult.fn = "toSVG" /\ ~encResult.threw) =>
        /\ encResult.out.kind = "svg"
        /\ encResult.out.tags[1] = "<svg"
        /\ encResult.out.tags[Len(encResult.out.tags)] = "</svg>"
        /\ \A k \in 2..(Len(encResult.out.tags) - 1) :
              encResult.out.tags[k] \notin {"<svg", "</svg>"}
        /\ AttributeValues(encResult.out, "width") = {ToString(encCall.size)}
        /\ AttributeValues(encResult.out, "height") = {ToString(encCall.size)}
        /\ encResult.out.root.width = encCall.size
        /\ encResult.out.root.height = encCall.size

\* toSVG of a painted 3x2 buffer at size 2, which is neither the buffer's width
\* nor a multiple of it, over the pattern background
C18_Witness ==
    /\ encResult.fn = "toSVG" /\ ~encResult.threw
    /\ encBuffer.width = 3 /\ encCall.size = 2 /\ encCall.bg = "pattern"
    /\ Len(encResult.out.rects) > 0

\* C19: the root element of the document toSVG returns carries the attribute
\* shape-rendering="crispEdges", spelled exactly so.
C19_ShapeRenderingAttribute ==
    (encResult.fn = "toSVG" /\ ~encResult.threw) =>
        AttributeValues(encResult.out, "shape-rendering") = {"crispEdges"}

\* C3: when encoding fails internally, neither encoder propagates an exception to
\* its caller: toSVG returns a 1x1 fully transparent SVG document and toPNG a 1x1
\* fully transparent PNG.
C3_EncodersDegrade ==
    encResult.failed => (~encResult.threw /\ IsPlaceholder(encResult))

\* ------------------------------------------------------------- SpecEngine
\* Two AvatarEngine objects are constructed from the same seed and palette
\* name and each is asked once for generate(mood, gender); the steps of the
\* two generations interleave freely.

EngineSeeds == {SeedOf(k) : k \in 0..MaxEngineSeed}

\* the registered names, and one that Object.prototype answers
EnginePaletteNames == PaletteNames \cup {"constructor"}

EngineInputs ==
    [seed : EngineSeeds, paletteName : EnginePaletteNames, mood : Moods, gender : Genders]

EngineInit ==
    /\ PrngIdle /\ SeedIdle /\ PalIdle /\ EncIdle /\ BufIdle /\ ReqIdle /\ DefIdle /\ LineIdle
    /\ \E p \in EngineInputs : params = [i \in Inst |-> p]
    /\ pc = [i \in Inst |-> "construct"]
    /\ engine = [i \in Inst |-> NoEngine]

\* what follows a step of generate
StepAfter(step) ==
    IF \E k \in 1..(Len(GenerateOrder) - 1) : GenerateOrder[k] = step
    THEN GenerateOrder[(CHOOSE k \in 1..(Len(GenerateOrder) - 1) : GenerateOrder[k] = step) + 1]
    ELSE "done"

\* new AvatarEngine(seed, paletteName), were the generator one object shared by
\* the instances: the second engine built carries on from the first one's state
ConstructSharedPrng(i) ==
    /\ pc[i] = "construct"
    /\ LET others == {j \in Inst : pc[j] \notin {"construct", "threw"}}
           seed == IF others = {} THEN params[i].seed
                   ELSE engine[CHOOSE j \in others : TRUE].prng
           e == AvatarEngineNew(seed, params[i].paletteName)
       IN  /\ pc' = [pc EXCEPT ![i] = IF e.threw THEN "threw" ELSE GenerateOrder[1]]
           /\ engine' = [engine EXCEPT ![i] = IF e.threw THEN @ ELSE e]
    /\ UNCHANGED <<params, notEngVars>>

\* new AvatarEngine(seed, paletteName)
Construct(i) ==
    /\ pc[i] = "construct"
    /\ LET e == AvatarEngineNew(params[i].seed, params[i].paletteName)
       IN  /\ pc' = [pc EXCEPT ![i] = IF e.threw THEN "threw" ELSE GenerateOrder[1]]
           /\ engine' = [engine EXCEPT ![i] = IF e.threw THEN @ ELSE e]
    /\ UNCHANGED <<params, notEngVars>>

\* a step of generate, were the pixel buffer one object shared by the
\* instances: what instance i paints lands in every engine's buffer
PerformSharedBuffer(i, step, after) ==
    /\ pc[i] = step
    /\ engine' = [j \in Inst |->
          IF j = i THEN after
          ELSE IF pc[j] \in {"construct", "threw"} THEN engine[j]
          ELSE [engine[j] EXCEPT !.buffer = after.buffer]]
    /\ pc' = [pc EXCEPT ![i] = StepAfter(step)]
    /\ UNCHANGED <<params, notEngVars>>

\* instance i performs the step of generate it has reached, which leaves its
\* engine as `after`
Perform(i, step, after) ==
    /\ pc[i] = step
    /\ engine' = [engine EXCEPT ![i] = after]
    /\ pc' = [pc EXCEPT ![i] = StepAfter(step)]
    /\ UNCHANGED <<params, notEngVars>>

ApplyMood(i) == Perform(i, "applyMood", applyMood(engine[i], params[i].mood))
ApplyGender(i) == Perform(i, "applyGender", applyGender(engine[i], params[i].gender))
Clear(i) == Perform(i, "clear", [engine[i] EXCEPT !.buffer = clear(@)])
DrawShoulders(i) == Perform(i, "drawShoulders", drawShoulders(engine[i]))
DrawShirt(i) == Perform(i, "drawShirt", drawShirt(engine[i]))
DrawNeck(i) == Perform(i, "drawNeck", drawNeck(engine[i]))
DrawHead(i) == Perform(i, "drawHead", drawHead(engine[i]))
DrawHair(i) == Perform(i, "drawHair", drawHair(engine[i]))
DrawBrows(i) == Perform(i, "drawBrows", drawBrows(engine[i]))
DrawEyes(i) == Perform(i, "drawEyes", drawEyes(engine[i]))
DrawNose(i) == Perform(i, "drawNose", drawNose(engine[i]))
DrawMouth(i) == Perform(i, "drawMouth", drawMouth(engine[i]))
DrawFacialHair(i) == Perform(i, "drawFacialHair", drawFacialHair(engine[i]))
DrawAccessories(i) == Perform(i, "drawAccessories", drawAccessories(engine[i]))
MirrorVertically(i) == Perform(i, "mirrorVertically", [engine[i] EXCEPT !.buffer = mirrorVertically(@)])
AddAsymmetry(i) == Perform(i, "addAsymmetry", addAsymmetry(engine[i]))

EngineNext ==
    \E i \in Inst :
        \/ Construct(i)
        \/ ApplyMood(i)
        \/ ApplyGender(i)
        \/ Clear(i)
        \/ DrawShoulders(i)
        \/ DrawShirt(i)
        \/ DrawNeck(i)
        \/ DrawHead(i)
        \/ DrawHair(i)
        \/ DrawBrows(i)
        \/ DrawEyes(i)
        \/ DrawNose(i)
        \/ DrawMouth(i)
        \/ DrawFacialHair(i)
        \/ DrawAccessories(i)
        \/ MirrorVertically(i)
        \/ AddAsymmetry(i)

SpecEngine == EngineInit /\ [][EngineNext]_vars
\* the instances whose generate call has returned
Done == {i \in Inst : pc[i] = "done"}

\* the cells of a buffer
Cells(b) == {b.buffer[y][x] : y \in 0..(b.height - 1), x \in 0..(b.width - 1)}

\* C1: two freshly constructed engines given the same seed and palette name and
\* each called once with generate(mood, gender) for the same mood and gender
\* return buffers whose 16x16 grids are equal cell for cell.
C1_Deterministic ==
    (Done = Inst /\ params[1] = params[2]) =>
        /\ getData(engine[1].buffer) = getData(engine[2].buffer)
        /\ DOMAIN getData(engine[1].buffer) = 0..15
        /\ \A y \in 0..15 : DOMAIN getData(engine[1].buffer)[y] = 0..15

\* both generations have returned and the picture is not blank
C1_Witness ==
    /\ Done = Inst /\ params[1] = params[2]
    /\ getData(engine[1].buffer) = getData(engine[2].buffer)
    /\ Cells(engine[1].buffer) # {Transparent}
    /\ engine[1].prng # XorShift32New(params[1].seed)

\* C7: after generate(mood, gender), for every seed and every registered palette,
\* every cell of the returned buffer is the transparent sentinel -1 or an index in
\* [0, palette.colors.length) of the engine's palette, and the buffer is still 16x16.
C7_CellsInPalette ==
    \A i \in Done :
        params[i].paletteName \in PaletteNames =>
            /\ engine[i].buffer.width = 16 /\ engine[i].buffer.height = 16
            /\ DOMAIN engine[i].buffer.buffer = 0..15
            /\ \A y \in 0..15 : DOMAIN engine[i].buffer.buffer[y] = 0..15
            /\ Cells(engine[i].buffer) \subseteq
                 {Transparent} \cup (0..(Len(engine[i].palette.colors) - 1))

\* a generation has returned a picture that leaves cells transparent and uses
\* both the first and the last colour of its palette's flat list
C7_Witness ==
    \E i \in Done :
        /\ params[i].paletteName \in PaletteNames
        /\ Transparent \in Cells(engine[i].buffer)
        /\ 0 \in Cells(engine[i].buffer)
        /\ (Len(engine[i].palette.colors) - 1) \in Cells(engine[i].buffer)

\* ------------------------------------------------------------- SpecPair
\* Two requests run the core at the same time, as the route handler does: each
\* has its own seed, palette name, mood and gender, constructs its own
\* AvatarEngine and calls generate; the steps of the two interleave freely.

PairFirst ==
    [seed : {SeedOf(0)}, paletteName : {"gameboy", "pastel"}, mood : {"smile"},
     gender : {"fem"}]

PairSecond == {
    [seed |-> SeedOf(MaxEngineSeed), paletteName |-> "pastel", mood |-> "angry",
     gender |-> "masc"],
    [seed |-> SeedOf(0), paletteName |-> "gameboy", mood |-> "wink",
     gender |-> "auto"],
    [seed |-> SeedOf(MaxEngineSeed), paletteName |-> "constructor",
     mood |-> "neutral", gender |-> "masc"] }

PairInit ==
    /\ PrngIdle /\ SeedIdle /\ PalIdle /\ EncIdle /\ BufIdle /\ ReqIdle /\ DefIdle /\ LineIdle
    /\ \E p \in PairFirst, q \in PairSecond : params = [i \in Inst |-> IF i = 1 THEN p ELSE q]
    /\ pc = [i \in Inst |-> "construct"]
    /\ engine = [i \in Inst |-> NoEngine]

SpecPair == PairInit /\ [][EngineNext]_vars

\* how many steps of generate have run when `at` is the next one
StepsBefore(at) ==
    IF at = "done" THEN Len(GenerateOrder)
    ELSE (CHOOSE k \in 1..Len(GenerateOrder) : GenerateOrder[k] = at) - 1

RECURSIVE GenerateUpTo(_, _, _, _, _)
\* the steps of generate from the k-th up to the last-th
GenerateUpTo(this, k, last, mood, gender) ==
    IF k > last THEN this
    ELSE CHOOSE r \in { GenerateUpTo(t, k + 1, last, mood, gender) :
                        t \in {GenerateStep(this, GenerateOrder[k], mood, gender)} } : TRUE

\* the engine of a generation that runs alone with parameters p, when `at` is
\* its next step
Alone(p, at) ==
    IF at \in {"construct", "threw"} THEN NoEngine
    ELSE GenerateUpTo(AvatarEngineNew(p.seed, p.paletteName), 1, StepsBefore(at),
                      p.mood, p.gender)

\* the size the encoders are asked for
PairSize == 64

\* C21: two generations, each with its own PRNG, buffer and engine instance,
\* whose steps are interleaved in any order produce exactly the buffers and
\* encoder outputs that each produces when run alone: however far the other has
\* got, the engine of each is what it would be had it run alone to the same step.
C21_InterleavedAsAlone ==
    \A i \in Inst :
        \A a \in {Alone(params[i], pc[i])} :
            /\ engine[i] = a
            /\ pc[i] = "done" =>
                 /\ toSVG(engine[i].buffer, PairSize, "transparent", params[i].paletteName)
                      = toSVG(a.buffer, PairSize, "transparent", params[i].paletteName)
                 /\ toPNG(engine[i].buffer, PairSize, "transparent", params[i].paletteName)
                      = toPNG(a.buffer, PairSize, "transparent", params[i].paletteName)

\* two generations with different parameters have both returned, with different
\* pictures and different generator states
C21_Witness ==
    /\ Done = Inst /\ params[1] # params[2]
    /\ getData(engine[1].buffer) # getData(engine[2].buffer)
    /\ engine[1].prng # engine[2].prng
    /\ Cells(engine[1].buffer) # {Transparent}
    /\ Cells(engine[2].buffer) # {Transparent}

\* ------------------------------------------------------------- SpecSolo
\* One generation per seed, registered palette, mood and gender: the first
\* instance constructs its engine and runs generate step by step; the second is
\* a request whose palette name makes the constructor throw.

MaxSoloSeed == 11

SoloSeeds == {SeedOf(k) : k \in 0..MaxSoloSeed}

SoloInputs ==
    [seed : SoloSeeds, paletteName : PaletteNames, mood : Moods, gender : Genders]

SoloInit ==
    /\ PrngIdle /\ SeedIdle /\ PalIdle /\ EncIdle /\ BufIdle /\ ReqIdle /\ DefIdle /\ LineIdle
    /\ \E p \in SoloInputs :
         params = [i \in Inst |-> IF i = 1 THEN p ELSE [p EXCEPT !.paletteName = "constructor"]]
    /\ pc = [i \in Inst |-> "construct"]
    /\ engine = [i \in Inst |-> NoEngine]

SpecSolo == SoloInit /\ [][EngineNext]_vars

RECURSIVE NthState(_, _)
\* the generator state after n calls of next()
NthState(s, n) ==
    IF n = 0 THEN s
    ELSE CHOOSE r \in { XorShift32Next(t) : t \in {NthState(s, n - 1)} } : TRUE

\* 1 for a chance that succeeded, 0 for one that failed
Extra(ok) == IF ok THEN 1 ELSE 0

\* the selection C22 describes, read off the generator's stream: the n-th value
\* consumed is the one next() gives in state NthState(s, n - 1)
ReferenceSelection(palette, s) ==
    LET facial == XorShift32Chance(NthState(s, 8), 30)
        a == Extra(facial)
        glasses == XorShift32Chance(NthState(s, 9 + a), 25)
        b == a + Extra(glasses)
        hat == XorShift32Chance(NthState(s, 11 + b), 20)
        c == b + Extra(hat)
    IN [ features |-> [
           skinTone |-> XorShift32Int(s, Len(palette.skin)),
           jawShape |-> XorShift32Pick(NthState(s, 1), <<"round", "square", "pointed">>),
           eyeShape |-> XorShift32Pick(NthState(s, 2),
               <<"normal", "smile", "wink", "closed", "wide", "surprised">>),
           browShape |-> XorShift32Pick(NthState(s, 3), <<"thin", "thick", "angry", "curved">>),
           noseShape |-> XorShift32Pick(NthState(s, 4), <<"dot", "line", "T">>),
           mouthShape |-> XorShift32Pick(NthState(s, 5),
               <<"neutral", "smile", "teeth", "open", "wow", "flat">>),
           hairStyle |-> XorShift32Pick(NthState(s, 6),
               <<"short", "medium", "long", "bald", "bun", "afro", "undercut">>),
           hairColor |-> XorShift32Int(NthState(s, 7), Len(palette.hair)),
           facialHair |-> IF facial
               THEN XorShift32Pick(NthState(s, 9), <<"stubble", "mustache", "goatee">>)
               ELSE NoFeature,
           accessories |-> [
               glasses |-> IF glasses
                   THEN XorShift32Pick(NthState(s, 10 + a), <<"round", "square">>)
                   ELSE NoFeature,
               earrings |-> XorShift32Chance(NthState(s, 10 + b), 15),
               hat |-> IF hat
                   THEN XorShift32Pick(NthState(s, 12 + b), <<"cap", "beanie">>)
                   ELSE NoFeature ],
           clothesStyle |-> XorShift32Pick(NthState(s, 12 + c), <<"collar", "hoodie", "tshirt">>),
           clothesColor |-> XorShift32Int(NthState(s, 13 + c), Len(palette.clothes)) ],
         prng |-> NthState(s, 14 + c) ]

\* the instances whose constructor has just returned
Constructed == {i \in Inst : pc[i] = GenerateOrder[1]}

\* C22: feature selection consumes the PRNG in the order skin-tone index, jaw,
\* eye, brow, nose, mouth, hair style, hair-colour index, facial-hair chance then
\* kind pick only if the chance succeeded, glasses chance then pick, earrings
\* chance, hat chance then pick, clothes style, clothes-colour index; the feature
\* set is that selection applied to the seed's stream, and skinTone, hairColor
\* and clothesColor lie inside their palette sublists.
C22_FeatureSelectionOrder ==
    \A i \in Constructed :
        \A ref \in {ReferenceSelection(getPalette(params[i].paletteName),
                                       XorShift32New(params[i].seed))} :
            /\ engine[i].features = ref.features
            /\ engine[i].prng = ref.prng
            /\ engine[i].features.skinTone \in 0..(Len(engine[i].palette.skin) - 1)
            /\ engine[i].features.hairColor \in 0..(Len(engine[i].palette.hair) - 1)
            /\ engine[i].features.clothesColor \in 0..(Len(engine[i].palette.clothes) - 1)

\* an engine has been constructed whose facial-hair chance succeeded and whose
\* hat chance failed, so that the later draws are shifted by one
C22_Witness ==
    \E i \in Constructed :
        /\ engine[i].features.facialHair # NoFeature
        /\ engine[i].features.accessories.hat = NoFeature
        /\ engine[i].features = ReferenceSelection(engine[i].palette,
                                   XorShift32New(params[i].seed)).features

\* the instances whose generate call is past the mood pass
PastMood == {i \in Inst : pc[i] \notin {"construct", "threw", "applyMood"}}

\* the instances whose generate call is past the mood and gender passes: drawing
\* starts with the clear that follows them
Drawing == {i \in PastMood : pc[i] # "applyGender"}

\* what a mood asks of eyes, brows and mouth
MoodSatisfied(features, mood) ==
    CASE mood = "smile" ->
           features.mouthShape = "smile" /\ features.eyeShape \in {"normal", "smile"}
      [] mood = "wink" ->
           features.eyeShape = "wink" /\ features.mouthShape \in {"smile", "neutral"}
      [] mood = "surprised" ->
           /\ features.eyeShape = "wide" /\ features.mouthShape = "open"
           /\ features.browShape \in {"thin", "curved"}
      [] mood = "angry" ->
           /\ features.browShape = "angry" /\ features.mouthShape \in {"flat", "neutral"}
           /\ features.eyeShape \in {"normal", "closed"}
      [] OTHER -> TRUE

\* eyes, brows and mouth of a feature set
Face(features) == <<features.eyeShape, features.browShape, features.mouthShape>>

\* C23: at the time drawing starts the feature set satisfies the requested mood
\* (smile: mouth smile, eye normal or smile; wink: eye wink, mouth smile or
\* neutral; surprised: eye wide, mouth open, brow thin or curved; angry: brow
\* angry, mouth flat or neutral, eye normal or closed); neutral changes no feature
\* and consumes no PRNG draw; the later gender pass never alters eye, brow or mouth.
C23_MoodSatisfied ==
    \A i \in PastMood :
        \A fresh \in {AvatarEngineNew(params[i].seed, params[i].paletteName)} :
            \A afterMood \in {applyMood(fresh, params[i].mood)} :
                /\ MoodSatisfied(engine[i].features, params[i].mood)
                /\ Face(engine[i].features) = Face(afterMood.features)
                /\ params[i].mood = "neutral" => afterMood = fresh
                /\ pc[i] = "applyGender" => engine[i] = afterMood

\* drawing has started for an angry face whose eyes the mood pass closed and
\* whose hair the gender pass restyled
C23_Witness ==
    \E i \in Drawing :
        /\ params[i].mood = "angry" /\ params[i].gender = "masc"
        /\ engine[i].features.eyeShape = "closed"
        /\ AvatarEngineNew(params[i].seed, params[i].paletteName).features.eyeShape # "closed"
        /\ engine[i].features.hairStyle #
             AvatarEngineNew(params[i].seed, params[i].paletteName).features.hairStyle

\* the features the gender pass found: those the mood pass left
BeforeGender(p) ==
    applyMood(AvatarEngineNew(p.seed, p.paletteName), p.mood)

\* C24: the gender pass with auto or androgynous leaves every feature field and
\* the PRNG state unchanged; with fem it changes at most hairStyle (to medium,
\* long or bun, or unchanged) and earrings; with masc at most hairStyle (to short,
\* undercut or bald, or unchanged) and facialHair; all other feature fields are
\* unchanged in every case.
C24_GenderFrame ==
    \A i \in Drawing :
        \A before \in {BeforeGender(params[i])} :
            LET f == engine[i].features
                g == before.features
                gender == params[i].gender
            IN /\ gender \in {"auto", "androgynous"} =>
                    /\ f = g
                    /\ pc[i] = "clear" => engine[i] = before
               /\ gender = "fem" =>
                    /\ f = [g EXCEPT !.hairStyle = f.hairStyle,
                                     !.accessories.earrings = f.accessories.earrings]
                    /\ f.hairStyle \in {"medium", "long", "bun", g.hairStyle}
                    /\ f.accessories.earrings \in BOOLEAN
               /\ gender = "masc" =>
                    /\ f = [g EXCEPT !.hairStyle = f.hairStyle,
                                     !.facialHair = f.facialHair]
                    /\ f.hairStyle \in {"short", "undercut", "bald", g.hairStyle}
               /\ pc[i] = "clear" =>
                    /\ engine[i].buffer = before.buffer
                    /\ engine[i].palette = before.palette

\* a fem pass has restyled the hair and put earrings on
C24_Witness ==
    \E i \in Drawing :
        /\ pc[i] = "clear"
        /\ params[i].gender = "fem"
        /\ engine[i].features.hairStyle # BeforeGender(params[i]).features.hairStyle
        /\ engine[i].features.accessories.earrings
        /\ ~BeforeGender(params[i]).features.accessories.earrings

\* the order C25 gives: mood bias, gender bias, clear, the eleven layers, mirror,
\* asymmetry
StatedOrder == <<
    "applyMood", "applyGender", "clear",
    "drawShoulders", "drawShirt", "drawNeck", "drawHead", "drawHair", "drawBrows",
    "drawEyes", "drawNose", "drawMouth", "drawFacialHair", "drawAccessories",
    "mirrorVertically", "addAsymmetry" >>

\* instance i moves from the k-th stated step to the next, by doing that step
TakesStated(i, k) ==
    /\ pc[i] = StatedOrder[k]
    /\ pc'[i] = IF k = Len(StatedOrder) THEN "done" ELSE StatedOrder[k + 1]
    /\ engine'[i] = GenerateStep(engine[i], StatedOrder[k], params[i].mood, params[i].gender)

\* a buffer with no painted cell
Blank(b) == Cells(b) = {Transparent}

\* a buffer whose right half reflects its left half
Symmetric(b) ==
    \A y \in 0..(b.height - 1), x \in 0..(b.width - 1) :
        b.buffer[y][x] = b.buffer[y][b.width - 1 - x]

\* C25: every generate call performs its steps in this order and each exactly
\* once: mood bias, gender bias, clear buffer, then draw shoulders, shirt, neck,
\* head, hair, brows, eyes, nose, mouth, facial hair, accessories, then mirror,
\* then asymmetry; no drawing step precedes the clear, and no drawing step other
\* than the asymmetry pass follows the mirror.
C25_StepOrder ==
    /\ [][\A i \in Inst :
            pc'[i] # pc[i] =>
                \/ pc[i] = "construct" /\ pc'[i] \in {StatedOrder[1], "threw"}
                \/ \E k \in 1..Len(StatedOrder) : TakesStated(i, k)]_vars
    /\ [](\A i \in Inst :
            /\ pc[i] \in {"applyMood", "applyGender", "clear", "drawShoulders"} =>
                 Blank(engine[i].buffer)
            /\ pc[i] = "addAsymmetry" => Symmetric(engine[i].buffer))

\* a generate call has returned a painted picture that the asymmetry pass left
\* unsymmetric
C25_Witness ==
    \E i \in Done :
        /\ ~Blank(engine[i].buffer)
        /\ ~Symmetric(engine[i].buffer)

\* the cells in which two buffers differ
Changed(b1, b2) ==
    {c \in (0..(b1.width - 1)) \X (0..(b1.height - 1)) :
        b1.buffer[c[2]][c[1]] # b2.buffer[c[2]][c[1]]}

\* the cells of the left half that differ from their mirror cell
Unmirrored(b) ==
    {c \in (0..(b.width \div 2 - 1)) \X (0..(b.height - 1)) :
        b.buffer[c[2]][c[1]] # b.buffer[c[2]][b.width - 1 - c[1]]}

\* the cells the beauty mark can fall on, and those the hair variation can
BeautyCells == (4..11) \X (7..10)
HairCells == (2..3) \X (3..5)

\* what the asymmetry pass may have done to cell c of engine `this`, leaving `b`
AsymmetryAllows(this, b, c) ==
    \/ /\ c = <<12, 7>> /\ b.buffer[7][12] = Transparent
       /\ this.features.accessories.earrings
    \/ c \in BeautyCells /\ b.buffer[c[2]][c[1]] = 0
    \/ /\ c \in HairCells /\ b.buffer[c[2]][c[1]] = HairColorIndex(this)
       /\ this.features.hairStyle # "bald"

\* C26: the asymmetry pass changes at most three cells of the mirrored buffer:
\* cell (12,7) set to transparent, only when earrings are present; one cell with
\* x in 4..11 and y in 7..10 set to colour index 0; one cell with x in 2..3 and
\* y in 3..5 set to the hair colour, only when the hair style is not bald.
\* Consequently in the buffer generate returns at most 3 cells of the left half
\* differ from their mirror cell, under the 10% of 256 cells the script tolerates.
C26_AsymmetryFrame ==
    /\ [][\A i \in Inst :
            (pc[i] = "addAsymmetry" /\ pc'[i] = "done") =>
                \A d \in {Changed(engine[i].buffer, engine'[i].buffer)} :
                    /\ Cardinality(d) <= 3
                    /\ Cardinality(d \cap BeautyCells) <= 1
                    /\ Cardinality(d \cap HairCells) <= 1
                    /\ \A c \in d : AsymmetryAllows(engine[i], engine'[i].buffer, c)
                    /\ engine'[i].features = engine[i].features]_vars
    /\ [](\A i \in Done :
            /\ Cardinality(Unmirrored(engine[i].buffer)) <= 3
            /\ 10 * Cardinality(Unmirrored(engine[i].buffer)) < 256)

\* the buffer as mirrored, before the asymmetry pass, of a generation that has
\* returned
Mirrored(i) == Alone(params[i], "addAsymmetry").buffer

\* a generation has returned whose asymmetry pass took the right earring off
\* and changed a second cell
C26_Witness ==
    \E i \in Done :
        \E d \in {Changed(Mirrored(i), engine[i].buffer)} :
            /\ <<12, 7>> \in d
            /\ Cardinality(d) >= 2
            /\ Cardinality(Unmirrored(engine[i].buffer)) >= 2

\* ------------------------------------------------------------- SpecBuffer
\* One PixelBuffer of the default size; a caller invokes its methods with
\* integer arguments, may keep the value getData() returned and write into it.

\* new PixelBuffer(): width = 16, height = 16
DefaultSide == 16

BufColors == {1, 2}

\* coordinates for setPixel and getPixel: the unit tests' (5,5), (-1,-1), (20,20),
\* the corners, and cells just outside each edge
BufPoints ==
    { <<5, 5>>, <<0, 0>>, <<15, 15>>,
      <<-1, -1>>, <<20, 20>>, <<16, 3>>, <<3, 16>>, <<-1, 4>>, <<4, -1>> }

\* end points for drawLine: the unit tests' horizontal (2,5)-(6,5), a vertical
\* (6,5)-(6,14), steep and shallow diagonals, and two points outside the grid
LineEnds == { <<2, 5>>, <<6, 5>>, <<6, 14>>, <<-2, 3>>, <<17, 4>> }

\* centres and radii for fillCircle: the unit tests' (8,8) radius 3, a centre on
\* the right edge and one outside the bottom-left corner
CircleCentres == { <<8, 8>>, <<15, 3>>, <<-2, 17>> }
CircleRadii == {0, 1, 3}

\* rectangles for fillRect: the unit tests' (5,5) 3x3 and one over the corner
Rects == { <<5, 5, 3, 3>>, <<14, 14, 4, 4>> }

BufInit ==
    /\ PrngIdle /\ SeedIdle /\ PalIdle /\ EngIdle /\ EncIdle /\ ReqIdle /\ DefIdle /\ LineIdle
    /\ pixels = PixelBufferNew(DefaultSide, DefaultSide)
    /\ calls = 0
    /\ lastCall = NoBufCall
    /\ held = NoHeld

CanCall == calls < MaxCalls

\* The value the caller holds after the buffer became b: rows it shares with the
\* buffer show the buffer's cells.
HeldAfter(b) ==
    IF held.taken /\ held.rows = "shared" /\ held.list = "new" /\ ~held.changed
    THEN [held EXCEPT !.data = b.buffer]
    ELSE held

\* a method that writes the buffer was called: the buffer is b afterwards
Wrote(b, call) ==
    /\ CanCall
    /\ pixels' = b
    /\ calls' = calls + 1
    /\ lastCall' = [call EXCEPT !.before = pixels]
    /\ held' = HeldAfter(b)
    /\ UNCHANGED notBufVars

\* buffer.setPixel(x, y, colorIndex)
BufSetPixel(x, y, colorIndex) ==
    Wrote(setPixel(pixels, x, y, colorIndex),
          [NoBufCall EXCEPT !.op = "setPixel", !.x = x, !.y = y,
                            !.colorIndex = colorIndex])

\* buffer.getPixel(x, y)
BufGetPixel(x, y) ==
    /\ CanCall
    /\ calls' = calls + 1
    /\ lastCall' = [NoBufCall EXCEPT !.op = "getPixel", !.x = x, !.y = y,
                                     !.before = pixels, !.out = getPixel(pixels, x, y)]
    /\ UNCHANGED <<pixels, held, notBufVars>>

\* buffer.fillRect(x, y, width, height, colorIndex)
BufFillRect(x, y, width, height, colorIndex) ==
    Wrote(fillRect(pixels, x, y, width, height, colorIndex),
          [NoBufCall EXCEPT !.op = "fillRect", !.x = x, !.y = y, !.x1 = width,
                            !.y1 = height, !.colorIndex = colorIndex])

\* buffer.drawLine(x0, y0, x1, y1, colorIndex)
BufDrawLine(x0, y0, x1, y1, colorIndex) ==
    Wrote(drawLine(pixels, x0, y0, x1, y1, colorIndex),
          [NoBufCall EXCEPT !.op = "drawLine", !.x = x0, !.y = y0, !.x1 = x1,
                            !.y1 = y1, !.colorIndex = colorIndex])

\* buffer.fillCircle(centerX, centerY, radius, colorIndex)
BufFillCircle(centerX, centerY, radius, colorIndex) ==
    Wrote(fillCircle(pixels, centerX, centerY, radius, colorIndex),
          [NoBufCall EXCEPT !.op = "fillCircle", !.x = centerX, !.y = centerY,
                            !.radius = radius, !.colorIndex = colorIndex])

\* buffer.mirrorVertically()
BufMirror ==
    Wrote(mirrorVertically(pixels), [NoBufCall EXCEPT !.op = "mirrorVertically"])

\* buffer.clear()
BufClear ==
    Wrote(clear(pixels), [NoBufCall EXCEPT !.op = "clear"])

\* const data = buffer.getData()
BufGetData ==
    /\ CanCall
    /\ calls' = calls + 1
    /\ lastCall' = [NoBufCall EXCEPT !.op = "getData", !.before = pixels]
    /\ held' = [ taken |-> TRUE, list |-> getDataArrays(pixels).list,
                 rows |-> getDataArrays(pixels).rows, data |-> getData(pixels),
                 changed |-> FALSE ]
    /\ UNCHANGED <<pixels, notBufVars>>

CanChange == held.taken /\ ~held.changed

\* data[y][x] = colorIndex, by the caller: a write into the buffer's own row
\* when the row is shared
CallerWritesCell(x, y, colorIndex) ==
    /\ CanChange
    /\ held' = [held EXCEPT !.data[y][x] = colorIndex, !.changed = TRUE]
    /\ pixels' = IF held.rows = "shared"
                 THEN [pixels EXCEPT !.buffer[y][x] = colorIndex] ELSE pixels
    /\ lastCall' = [NoBufCall EXCEPT !.op = "writeCell", !.x = x, !.y = y,
                                     !.colorIndex = colorIndex, !.before = pixels]
    /\ UNCHANGED <<calls, notBufVars>>

\* data[y] = Array(width).fill(colorIndex), by the caller: a write into the
\* buffer's own row list when the list is shared
CallerReplacesRow(y, colorIndex) ==
    /\ CanChange
    /\ held' = [held EXCEPT !.data[y] = [x \in 0..(pixels.width - 1) |-> colorIndex],
                            !.changed = TRUE]
    /\ pixels' = IF held.list = "shared"
                 THEN [pixels EXCEPT !.buffer[y] =
                          [x \in 0..(pixels.width - 1) |-> colorIndex]]
                 ELSE pixels
    /\ lastCall' = [NoBufCall EXCEPT !.op = "replaceRow", !.y = y,
                                     !.colorIndex = colorIndex, !.before = pixels]
    /\ UNCHANGED <<calls, notBufVars>>

BufNext ==
    \/ \E p \in BufPoints, colorIndex \in BufColors : BufSetPixel(p[1], p[2], colorIndex)
    \/ \E p \in BufPoints : BufGetPixel(p[1], p[2])
    \/ \E r \in Rects, colorIndex \in BufColors :
         BufFillRect(r[1], r[2], r[3], r[4], colorIndex)
    \/ \E p \in LineEnds, q \in LineEnds, colorIndex \in BufColors :
         BufDrawLine(p[1], p[2], q[1], q[2], colorIndex)
    \/ \E c \in CircleCentres, radius \in CircleRadii, colorIndex \in BufColors :
         BufFillCircle(c[1], c[2], radius, colorIndex)
    \/ BufMirror
    \/ BufClear
    \/ BufGetData
    \/ \E p \in {<<0, 0>>, <<10, 5>>}, colorIndex \in {Transparent, 2} :
         CallerWritesCell(p[1], p[2], colorIndex)
    \/ \E y \in {5, 15} : CallerReplacesRow(y, 2)

SpecBuffer == BufInit /\ [][BufNext]_vars

\* the coordinates of the grid
Side == 0..(DefaultSide - 1)

\* C12: setPixel(x, y, c) with (x, y) outside [0,16)x[0,16) leaves every cell as
\* it was and getPixel(x, y) is -1 there; with (x, y) inside, it changes cell
\* (x, y) only and a following getPixel(x, y) returns c.
C12_SetGetPixel ==
    /\ lastCall.op = "setPixel" =>
          LET x == lastCall.x
              y == lastCall.y
          IN IF x \in Side /\ y \in Side
             THEN /\ \A u \in Side, v \in Side :
                        pixels.buffer[v][u] =
                            IF u = x /\ v = y THEN lastCall.colorIndex
                            ELSE lastCall.before.buffer[v][u]
                  /\ getPixel(pixels, x, y) = lastCall.colorIndex
             ELSE /\ pixels = lastCall.before
                  /\ getPixel(pixels, x, y) = -1
    /\ lastCall.op = "getPixel" =>
          /\ pixels = lastCall.before
          /\ lastCall.out = IF lastCall.x \in Side /\ lastCall.y \in Side
                            THEN pixels.buffer[lastCall.y][lastCall.x] ELSE -1

\* setPixel just right of the edge of a painted row
C12_Witness ==
    /\ lastCall.op = "setPixel" /\ lastCall.x = 16 /\ lastCall.y = 3
    /\ \E u \in Side : pixels.buffer[3][u] # Transparent

\* b with the cells of its right half (x in 8..15) made transparent
LeftHalfOnly(b) ==
    [b EXCEPT !.buffer = [y \in Side |-> [x \in Side |->
        IF x < DefaultSide \div 2 THEN b.buffer[y][x] ELSE Transparent]]]

\* C13: after mirrorVertically() every row has cell(15 - x, y) = old cell(x, y)
\* for x in 0..7 and its left half unchanged; what the right half held before
\* has no influence; the buffer is left-right symmetric and a second
\* mirrorVertically() changes nothing.
C13_MirrorLeftOntoRight ==
    lastCall.op = "mirrorVertically" =>
        /\ \A y \in Side : \A x \in 0..(DefaultSide \div 2 - 1) :
              /\ pixels.buffer[y][DefaultSide - 1 - x] = lastCall.before.buffer[y][x]
              /\ pixels.buffer[y][x] = lastCall.before.buffer[y][x]
        /\ pixels = mirrorVertically(LeftHalfOnly(lastCall.before))
        /\ \A y \in Side, x \in Side :
              pixels.buffer[y][x] = pixels.buffer[y][DefaultSide - 1 - x]
        /\ mirrorVertically(pixels) = pixels

\* a mirror of a buffer whose right half held a painted cell that is not the
\* reflection of the left half
C13_Witness ==
    /\ lastCall.op = "mirrorVertically"
    /\ \E y \in Side : \E x \in (DefaultSide \div 2)..(DefaultSide - 1) :
          /\ lastCall.before.buffer[y][x] # Transparent
          /\ lastCall.before.buffer[y][x] # lastCall.before.buffer[y][DefaultSide - 1 - x]
    /\ \E y \in Side : \E x \in 0..(DefaultSide \div 2 - 1) :
          lastCall.before.buffer[y][x] # Transparent

\* C14: fillCircle(cx, cy, r, c) sets to c exactly the cells (x, y) of the grid
\* with (x - cx)^2 + (y - cy)^2 <= r^2 and leaves every other cell as it was;
\* the part of the disk outside the grid is skipped.
C14_FillCircleDisk ==
    lastCall.op = "fillCircle" =>
        \A y \in Side, x \in Side :
            pixels.buffer[y][x] =
                IF (x - lastCall.x) * (x - lastCall.x)
                     + (y - lastCall.y) * (y - lastCall.y)
                   <= lastCall.radius * lastCall.radius
                THEN lastCall.colorIndex
                ELSE lastCall.before.buffer[y][x]

\* a disk of radius 3 centred on the right edge, over a buffer painted with the
\* other colour: part of the disk is outside the grid, part covers painted cells
C14_Witness ==
    /\ lastCall.op = "fillCircle" /\ lastCall.radius = 3
    /\ lastCall.x = 15 /\ lastCall.y = 3
    /\ \E y \in Side, x \in Side :
          /\ lastCall.before.buffer[y][x] \notin {Transparent, lastCall.colorIndex}
          /\ pixels.buffer[y][x] = lastCall.colorIndex
    /\ \E y \in Side, x \in Side :
          /\ lastCall.before.buffer[y][x] # Transparent
          /\ pixels.buffer[y][x] = lastCall.before.buffer[y][x]
          /\ pixels.buffer[y][x] # lastCall.colorIndex

\* the smaller and the larger of two integers
Min2(a, b) == IF a < b THEN a ELSE b
Max2(a, b) == IF a < b THEN b ELSE a

\* (x, y) lies in the bounding box of the end points of the latest drawLine
InLineBox(x, y) ==
    /\ Min2(lastCall.x, lastCall.x1) <= x /\ x <= Max2(lastCall.x, lastCall.x1)
    /\ Min2(lastCall.y, lastCall.y1) <= y /\ y <= Max2(lastCall.y, lastCall.y1)

\* C15: drawLine sets both end cells (when in the grid) to the colour; a
\* horizontal or vertical line sets exactly the cells from one end to the other,
\* every other cell staying as it was; any line changes cells only inside the
\* bounding box of its end points, and only to the colour.
C15_DrawLineEndpoints ==
    lastCall.op = "drawLine" =>
        /\ (lastCall.x \in Side /\ lastCall.y \in Side) =>
              pixels.buffer[lastCall.y][lastCall.x] = lastCall.colorIndex
        /\ (lastCall.x1 \in Side /\ lastCall.y1 \in Side) =>
              pixels.buffer[lastCall.y1][lastCall.x1] = lastCall.colorIndex
        /\ \A y \in Side, x \in Side :
              \/ pixels.buffer[y][x] = lastCall.before.buffer[y][x]
              \/ InLineBox(x, y) /\ pixels.buffer[y][x] = lastCall.colorIndex
        /\ (lastCall.x = lastCall.x1 \/ lastCall.y = lastCall.y1) =>
              \A y \in Side, x \in Side :
                  pixels.buffer[y][x] =
                      IF InLineBox(x, y) THEN lastCall.colorIndex
                      ELSE lastCall.before.buffer[y][x]

\* the horizontal line of the unit tests drawn from right to left across a cell
\* painted with the other colour, other painted cells left as they were
C15_Witness ==
    /\ lastCall.op = "drawLine"
    /\ lastCall.x = 6 /\ lastCall.y = 5 /\ lastCall.x1 = 2 /\ lastCall.y1 = 5
    /\ lastCall.before.buffer[5][6] \notin {Transparent, lastCall.colorIndex}
    /\ pixels.buffer[5][6] = lastCall.colorIndex
    /\ \E y \in Side, x \in Side :
          /\ y # 5 /\ pixels.buffer[y][x] # Transparent
          /\ pixels.buffer[y][x] # lastCall.colorIndex

\* C16: getData() returns a row-major copy equal to the grid, and nothing the
\* caller then does to the returned value (a write to a cell of a row, or to the
\* row list) changes what getPixel or getData returns.
C16_GetDataIsCopy ==
    /\ lastCall.op = "getData" =>
          /\ pixels = lastCall.before
          /\ DOMAIN held.data = Side
          /\ \A y \in Side :
                /\ DOMAIN held.data[y] = Side
                /\ \A x \in Side : held.data[y][x] = getPixel(pixels, x, y)
    /\ lastCall.op \in {"writeCell", "replaceRow"} =>
          /\ getData(pixels) = getData(lastCall.before)
          /\ \A y \in Side, x \in Side :
                getPixel(pixels, x, y) = getPixel(lastCall.before, x, y)

\* the caller overwrote a painted cell of the value getData() gave it, which now
\* differs from the buffer
C16_Witness ==
    /\ lastCall.op = "writeCell"
    /\ held.changed
    /\ pixels.buffer[lastCall.y][lastCall.x] \notin {Transparent, lastCall.colorIndex}
    /\ held.data[lastCall.y][lastCall.x] = lastCall.colorIndex
    /\ held.data # pixels.buffer

\* ------------------------------------------------------------- SpecGrid
\* A 16x16 buffer, as every engine owns, is painted with fillRect and then
\* handed once to toSVG or to toPNG with a size, a background and a palette name.

\* how many fillRect calls paint the buffer
MaxFills == 2

\* fillRect arguments x, y, width, height, colorIndex: overlapping blocks of one
\* colour and of two, a strip, a block clipped by the corner with an index past
\* the end of the 4-colour list, the whole grid, and an erasure
GridFills == {
    <<0, 0, 3, 2, 1>>, <<2, 1, 3, 3, 1>>, <<2, 1, 3, 3, 0>>, <<1, 0, 1, 4, 0>>,
    <<14, 14, 4, 4, 5>>, <<0, 0, 16, 16, 1>>, <<4, 2, 2, 1, Transparent>> }

GridSizes == {8, 24, 40}
GridBackgrounds == {"transparent", "pattern", "#FF0000"}
GridPaletteNames == {"nes", "gameboy"}

GridInit ==
    /\ PrngIdle /\ SeedIdle /\ PalIdle /\ EngIdle /\ BufIdle /\ ReqIdle /\ DefIdle /\ LineIdle
    /\ encBuffer = PixelBufferNew(DefaultSide, DefaultSide)
    /\ paints = 0
    /\ encCall = NoArgs
    /\ encResult = NoCall

\* buffer.fillRect(x, y, width, height, colorIndex)
Fill(f) ==
    /\ paints < MaxFills
    /\ encResult = NoCall
    /\ \E b \in {fillRect(encBuffer, f[1], f[2], f[3], f[4], f[5])} : encBuffer' = b
    /\ paints' = paints + 1
    /\ UNCHANGED <<encCall, encResult, notEncVars>>

GridNext ==
    \/ \E f \in GridFills : Fill(f)
    \/ \E size \in GridSizes, bg \in GridBackgrounds, paletteName \in GridPaletteNames :
         \/ ToSVG(size, bg, paletteName)
         \/ ToPNG(size, bg, paletteName)

SpecGrid == GridInit /\ [][GridNext]_vars

\* the buffer holds nothing but -1 and indexes of the palette's flat list
ValidCells(b, palette) ==
    /\ palette.kind = "Palette"
    /\ Cells(b) \subseteq {Transparent} \cup (0..(Len(palette.colors) - 1))

\* the cell count a scaled length r stands for, at size/16 per cell
Unscaled(r, size) == (r.num * DefaultSide) \div (r.den * size)

\* the rectangle of cells that rect stands for
CellRect(rect, size) ==
    [ x |-> Unscaled(rect.x, size), y |-> Unscaled(rect.y, size),
      width |-> Unscaled(rect.width, size), height |-> Unscaled(rect.height, size) ]

\* the cells a rectangle of cells covers
Cover(c) ==
    {<<x, y>> : x \in c.x..(c.x + c.width - 1), y \in c.y..(c.y + c.height - 1)}

\* the longest run of colour-v cells going right from (x, y) that meets no cell
\* of `taken`
LongestRun(b, taken, x, y, v) ==
    CHOOSE n \in 1..(b.width - x) :
        /\ \A d \in 1..(n - 1) : b.buffer[y][x + d] = v /\ <<x + d, y>> \notin taken
        /\ n < b.width - x =>
             (b.buffer[y][x + n] # v \/ <<x + n, y>> \in taken)

\* whether the row segment of width w at row y, from column x, is all colour v
\* and meets no cell of `taken`
SegmentMatches(b, taken, x, y, w, v) ==
    \A d \in 0..(w - 1) : b.buffer[y][x + d] = v /\ <<x + d, y>> \notin taken

\* how far down the run of width w extends
DeepestRun(b, taken, x, y, w, v) ==
    CHOOSE m \in 1..(b.height - y) :
        /\ \A e \in 1..(m - 1) : SegmentMatches(b, taken, x, y + e, w, v)
        /\ m < b.height - y => ~SegmentMatches(b, taken, x, y + m, w, v)

\* C27: for every buffer whose cells are -1 or valid palette indices, the
\* foreground rectangles toSVG emits partition the non-transparent cells: every
\* non-transparent cell is covered by exactly one rectangle, whose fill is the
\* palette colour of the cell's index; no two rectangles overlap and none covers
\* a transparent cell; each rectangle's x, y, width and height are the cell
\* coordinates and extents multiplied by size/16; and each rectangle is the
\* greedy one: from its top-left cell the longest same-colour unprocessed
\* horizontal run, extended downward while the whole row segment matches.
C27_RectsPartition ==
    (/\ encResult.fn = "toSVG" /\ ~encResult.threw
     /\ ValidCells(encBuffer, getPalette(encCall.paletteName))) =>
        LET rects == encResult.out.rects
            size == encCall.size
            colors == getPalette(encCall.paletteName).colors
            cell(k) == CellRect(rects[k], size)
            earlier(k) == UNION {Cover(cell(j)) : j \in 1..(k - 1)}
        IN /\ \A y \in Side, x \in Side :
                 encBuffer.buffer[y][x] # Transparent =>
                    /\ Cardinality({k \in 1..Len(rects) : <<x, y>> \in Cover(cell(k))}) = 1
                    /\ \A k \in 1..Len(rects) :
                         <<x, y>> \in Cover(cell(k)) =>
                            rects[k].color = colors[encBuffer.buffer[y][x] + 1]
           /\ \A j, k \in 1..Len(rects) :
                 j # k => Cover(cell(j)) \cap Cover(cell(k)) = {}
           /\ \A k \in 1..Len(rects) :
                 \A c \in {cell(k)} :
                    /\ c.width >= 1 /\ c.height >= 1
                    /\ Cover(c) \subseteq Side \X Side
                    /\ \A p \in Cover(c) : encBuffer.buffer[p[2]][p[1]] # Transparent
                    /\ rects[k].x = Ratio(c.x * size, DefaultSide)
                    /\ rects[k].y = Ratio(c.y * size, DefaultSide)
                    /\ rects[k].width = Ratio(c.width * size, DefaultSide)
                    /\ rects[k].height = Ratio(c.height * size, DefaultSide)
                    /\ LET v == encBuffer.buffer[c.y][c.x]
                       IN /\ c.width = LongestRun(encBuffer, earlier(k), c.x, c.y, v)
                          /\ c.height = DeepestRun(encBuffer, earlier(k), c.x, c.y, c.width, v)

\* toSVG has encoded an S-shaped area of one colour as three rectangles, the
\* third of which stops at a cell the second had taken
C27_Witness ==
    /\ encResult.fn = "toSVG" /\ ~encResult.threw
    /\ ValidCells(encBuffer, getPalette(encCall.paletteName))
    /\ encCall.size = 40
    /\ Len(encResult.out.rects) = 3
    /\ CellRect(encResult.out.rects[3], 40) = [x |-> 2, y |-> 2, width |-> 1, height |-> 2]
    /\ encBuffer.buffer[2][3] = encBuffer.buffer[2][2]

\* the scale C28 gives: max(1, floor(size / 16))
StatedPixelSize(size) == IF size \div DefaultSide >= 1 THEN size \div DefaultSide ELSE 1

\* the background value C28 gives for bitmap pixel (X, Y) at scale ps
StatedBackground(bg, ps, X, Y) ==
    CASE bg = "transparent" -> [rgb |-> "#000000", a |-> 0]
      [] bg = "pattern" ->
           [rgb |-> IF ((X \div ps) + (Y \div ps)) % 2 = 0 THEN "#F0F0F0" ELSE "#DCDCDC",
            a |-> 255]
      [] OTHER -> [rgb |-> bg, a |-> 255]

\* C28: for every buffer, background and size, the bitmap toPNG encodes is square
\* with side ps*16 where ps = max(1, floor(size/16)), and each bitmap pixel (X, Y)
\* holds the opaque palette colour of buffer cell (X div ps, Y div ps) when that
\* cell's index is in [0, palette.colors.length), and otherwise the background
\* value at (X, Y): fully transparent (0,0,0,0), the opaque hex colour, or the
\* checkerboard gray chosen by the parity of (X div ps) + (Y div ps).
C28_PngBitmap ==
    (encResult.fn = "toPNG" /\ ~encResult.failed) =>
        LET png == encResult.out
            ps == StatedPixelSize(encCall.size)
            colors == getPalette(encCall.paletteName).colors
        IN /\ png.ihdr.width = ps * DefaultSide /\ png.ihdr.height = ps * DefaultSide
           /\ DOMAIN png.imageData = 0..(ps * DefaultSide - 1)
           /\ \A Y \in 0..(ps * DefaultSide - 1) :
                 /\ DOMAIN png.imageData[Y].pixels = 0..(ps * DefaultSide - 1)
                 /\ \A X \in 0..(ps * DefaultSide - 1) :
                       LET index == encBuffer.buffer[Y \div ps][X \div ps]
                       IN png.imageData[Y].pixels[X] =
                            IF index \in 0..(Len(colors) - 1)
                            THEN [rgb |-> colors[index + 1], a |-> 255]
                            ELSE StatedBackground(encCall.bg, ps, X, Y)

\* toPNG has encoded, at two pixels a cell and over the checkerboard, a buffer
\* that holds a colour of the palette and an index past the end of its list
C28_Witness ==
    /\ encResult.fn = "toPNG" /\ ~encResult.failed
    /\ encCall.size = 40 /\ encCall.bg = "pattern" /\ encCall.paletteName = "gameboy"
    /\ encResult.out.ihdr.width = 32
    /\ encBuffer.buffer[15][15] = 5
    /\ encBuffer.buffer[0][0] = 1
    /\ encResult.out.imageData[31].pixels[31] = [rgb |-> "#F0F0F0", a |-> 255]
    /\ encResult.out.imageData[31].pixels[29] = [rgb |-> "#DCDCDC", a |-> 255]
    /\ encResult.out.imageData[1].pixels[1].a = 255

\* ------------------------------------------------------------- SpecDeflate
\* deflate is called once on the scanline bytes generatePNG has laid out; the
\* bytes are told apart by their offsets in the data.

\* const maxBlockSize = 65535
maxBlockSize == 65535

\* the short inputs are of 1..MaxShort bytes
MaxShort == 40
\* the inputs about a whole number of blocks have up to MaxBlocks full blocks
MaxBlocks == 4
\* the inputs generatePNG makes are those of squares of 16 * 1..MaxScale pixels
MaxScale == 16

DeflateLengths ==
    (1..MaxShort)
    \cup {m * maxBlockSize + d : m \in 1..MaxBlocks, d \in {-1, 0, 1}}
    \cup {(DefaultSide * ps * 4 + 1) * (DefaultSide * ps) : ps \in 1..MaxScale}

DeflateInit ==
    /\ PrngIdle /\ SeedIdle /\ PalIdle /\ EngIdle /\ EncIdle /\ BufIdle /\ ReqIdle
    /\ LineIdle
    /\ \E length \in DeflateLengths :
         deflateCall = [length |-> length, returned |-> FALSE, blocks |-> <<>>]

\* deflate(data)
Deflate ==
    /\ ~deflateCall.returned
    /\ deflateCall' = [deflateCall EXCEPT !.returned = TRUE,
                                          !.blocks = DeflateFrom(deflateCall.length, 0)]
    /\ UNCHANGED notDefVars

DeflateNext == Deflate

SpecDeflate == DeflateInit /\ [][DeflateNext]_vars

RECURSIVE OnesComplement(_, _)
\* the value whose low `bits` bits are those of v, each inverted
OnesComplement(v, bits) ==
    IF bits = 0 THEN 0
    ELSE (1 - (v % 2)) + 2 * OnesComplement(v \div 2, bits - 1)

\* C29: for every non-empty scanline byte sequence D, the stored-block stream
\* deflate produces is a sequence of blocks, each a 5-byte header followed by
\* its payload, such that every block's LEN is in 1..65535, NLEN is the 16-bit
\* one's complement of LEN, every block except the last has LEN = 65535, exactly
\* the last block has BFINAL = 1, and the concatenated payloads equal D.
C29_StoredBlocks ==
    (deflateCall.returned /\ deflateCall.length >= 1) =>
        LET blocks == deflateCall.blocks
            n == Len(blocks)
        IN /\ n >= 1
           /\ \A k \in 1..n :
                 /\ blocks[k].size = 5 + blocks[k].len
                 /\ blocks[k].len \in 1..65535
                 /\ blocks[k].nlen = OnesComplement(blocks[k].len, HalfBits)
                 /\ k < n => blocks[k].len = 65535
                 /\ blocks[k].final = (IF k = n THEN 1 ELSE 0)
                 /\ blocks[k].from = (IF k = 1 THEN 0
                                      ELSE blocks[k - 1].from + blocks[k - 1].len)
           /\ blocks[n].from + blocks[n].len = deflateCall.length

\* deflate has returned two full blocks and a last block of one byte
C29_Witness ==
    /\ deflateCall.returned
    /\ Len(deflateCall.blocks) = 3
    /\ deflateCall.blocks[2].len = maxBlockSize
    /\ deflateCall.blocks[3].len = 1
    /\ deflateCall.blocks[3].final = 1

\* ------------------------------------------------------------- SpecHalt
\* Either one drawLine call on a fresh 16x16 buffer, taken one iteration of its
\* while (true) loop at a time, or one generation taken one step of generate at
\* a time.  Whatever can take a step eventually does.

\* how far outside the grid the endpoints reach
MaxReach == 2
\* no run of the loop is followed further than this many iterations
MaxIterations == 64

LineCoords == {-MaxReach, 0, 3, 7, DefaultSide - 1, DefaultSide - 1 + MaxReach}

\* drawLine entered: dx, dy, sx, sy and err computed, x and y at the start
LineStarted(x0, y0, x1, y1) ==
    [ x0 |-> x0, y0 |-> y0, x1 |-> x1, y1 |-> y1, colorIndex |-> 1,
      x |-> x0, y |-> y0, err |-> Abs(x1 - x0) - Abs(y1 - y0), iterations |-> 0,
      running |-> TRUE, called |-> TRUE,
      buffer |-> PixelBufferNew(DefaultSide, DefaultSide) ]

HaltInputs ==
    [seed : EngineSeeds, paletteName : PaletteNames, mood : Moods, gender : Genders]

HaltInit ==
    /\ PrngIdle /\ SeedIdle /\ PalIdle /\ EncIdle /\ BufIdle /\ ReqIdle /\ DefIdle
    /\ \/ /\ EngIdle
          /\ \E x0 \in LineCoords, y0 \in LineCoords, x1 \in LineCoords, y1 \in LineCoords :
               line = LineStarted(x0, y0, x1, y1)
       \/ /\ LineIdle
          /\ \E p \in HaltInputs :
               params = [i \in Inst |->
                           IF i = 1 THEN p ELSE [p EXCEPT !.paletteName = "constructor"]]
          /\ pc = [i \in Inst |-> "construct"]
          /\ engine = [i \in Inst |-> NoEngine]

\* one iteration of the loop, were x always stepped to the right
LineIterateRightOnly ==
    /\ line.running /\ line.iterations < MaxIterations
    /\ LET dx == Abs(line.x1 - line.x0)
           dy == Abs(line.y1 - line.y0)
           sy == IF line.y0 < line.y1 THEN 1 ELSE -1
           e2 == 2 * line.err
           stepX == e2 > -dy
           stepY == e2 < dx
           atEnd == line.x = line.x1 /\ line.y = line.y1
       IN \E b \in {setPixel(line.buffer, line.x, line.y, line.colorIndex)} :
            line' = [line EXCEPT
                       !.buffer = b,
                       !.iterations = @ + 1,
                       !.running = ~atEnd,
                       !.err = IF atEnd THEN @
                               ELSE @ - (IF stepX THEN dy ELSE 0) + (IF stepY THEN dx ELSE 0),
                       !.x = IF ~atEnd /\ stepX THEN @ + 1 ELSE @,
                       !.y = IF ~atEnd /\ stepY THEN @ + sy ELSE @]
    /\ UNCHANGED notLineVars

\* one iteration of the while (true) loop of drawLine: setPixel, the break test,
\* then the two steps
LineIterate ==
    /\ line.running /\ line.iterations < MaxIterations
    /\ LET dx == Abs(line.x1 - line.x0)
           dy == Abs(line.y1 - line.y0)
           sx == IF line.x0 < line.x1 THEN 1 ELSE -1
           sy == IF line.y0 < line.y1 THEN 1 ELSE -1
           e2 == 2 * line.err
           stepX == e2 > -dy
           stepY == e2 < dx
           atEnd == line.x = line.x1 /\ line.y = line.y1
       IN \E b \in {setPixel(line.buffer, line.x, line.y, line.colorIndex)} :
            line' = [line EXCEPT
                       !.buffer = b,
                       !.iterations = @ + 1,
                       !.running = ~atEnd,
                       !.err = IF atEnd THEN @
                               ELSE @ - (IF stepX THEN dy ELSE 0) + (IF stepY THEN dx ELSE 0),
                       !.x = IF ~atEnd /\ stepX THEN @ + sx ELSE @,
                       !.y = IF ~atEnd /\ stepY THEN @ + sy ELSE @]
    /\ UNCHANGED notLineVars

HaltNext ==
    \/ LineIterate
    \/ EngineNext

\* the positions of generate and of the constructor call before it
Positions == {"construct", "threw", "done"} \cup {GenerateOrder[k] : k \in 1..Len(GenerateOrder)}

\* an instance that has not returned moves on.  Every step of EngineNext is
\* such a move and is possible whenever its instance is at its position, so this
\* is the engine's progress stated on pc alone.
Advance ==
    \E i \in Inst :
        /\ pc[i] \in Positions \ {"threw", "done"}
        /\ pc' \in {[pc EXCEPT ![i] = t] : t \in Positions}

\* both calls run on a thread that is never starved: a loop iteration that can
\* be taken is taken, a generation that has not returned takes its next step
SpecHalt ==
    /\ HaltInit /\ [][HaltNext]_vars
    /\ WF_vars(LineIterate)
    /\ WF_pc(Advance)

\* the most iterations C30 allows the call
StatedIterations == Max2(Abs(line.x1 - line.x0), Abs(line.y1 - line.y0)) + 1

\* the drawLine call has left its loop
LineReturned == line.called /\ ~line.running

\* every generate call asked for has returned (or its constructor has thrown)
GenerateReturned == \A i \in Inst : pc[i] \in {"done", "threw"}

\* C30: drawLine's loop terminates for every pair of integer endpoints, inside
\* or outside the grid, after at most max(|x1-x0|, |y1-y0|) + 1 iterations; and
\* every generate call terminates for every seed, palette, mood and gender.
C30_Terminates ==
    /\ [](line.iterations <= StatedIterations)
    /\ line.called ~> LineReturned
    /\ (\E i \in Inst : pc[i] = "construct") ~> GenerateReturned

\* a drawLine call from outside the grid to outside the grid has returned after
\* as many iterations as the bound allows, having painted cells on its way
C30_Witness ==
    /\ LineReturned
    /\ line.x0 < 0 /\ line.y1 > DefaultSide - 1
    /\ line.iterations = StatedIterations
    /\ line.iterations > DefaultSide
    /\ Cells(line.buffer) # {Transparent}

\* ------------------------------------------------------------- SpecHandler
\* One GET /api/avatar request: the route handler validates the query
\* parameters with avatarParamsSchema, derives the seed, runs the engine and
\* encodes the buffer.  email, size and seed_salt are strings of character
\* codes; the enumerated parameters are kept as TLA+ strings.

\* searchParams.get(name) || fallback, for the two kinds of string
OrElse(v, fallback) == IF v = "" THEN fallback ELSE v
OrElseCodes(v, fallback) == IF v = <<>> THEN fallback ELSE v

\* rawParams of GET
RawParams(req) ==
    [ email |-> req.email,
      size |-> OrElseCodes(req.size, <<50, 53, 54>>),
      palette |-> OrElse(req.palette, "nes"),
      bg |-> OrElse(req.bg, "transparent"),
      engine |-> OrElse(req.engine, "procedural"),
      mood |-> OrElse(req.mood, "neutral"),
      gender |-> OrElse(req.gender, "auto"),
      seed_salt |-> req.seed_salt,
      format |-> OrElse(req.format, "svg") ]

IsDigits(str) == str # <<>> /\ \A k \in 1..Len(str) : str[k] \in 48..57

RECURSIVE DigitsValue(_, _)
DigitsValue(str, acc) ==
    IF str = <<>> THEN acc ELSE DigitsValue(Tail(str), acc * 10 + (Head(str) - 48))

\* z.coerce.number(): Number(str) for a string of digits with at most one
\* decimal point; anything else here is not a number
ToNumber(str) ==
    LET dots == {k \in 1..Len(str) : str[k] = 46}
        dot == CHOOSE k \in dots : TRUE
        whole == SubSeq(str, 1, dot - 1)
        part == SubSeq(str, dot + 1, Len(str))
    IN  IF IsDigits(str) THEN [kind |-> "integer", value |-> DigitsValue(str, 0)]
        ELSE IF Cardinality(dots) = 1 /\ IsDigits(whole) /\ IsDigits(part)
        THEN [ kind |-> IF DigitsValue(part, 0) = 0 THEN "integer" ELSE "fraction",
               value |-> DigitsValue(whole, 0) ]
        ELSE [kind |-> "NaN", value |-> 0]

\* as SizeAccepted, with the size clamped into the range instead (clampSize)
SizeAcceptedClamped(n) == n.kind # "NaN"

\* .int().min(64).max(1024)
SizeAccepted(n) == n.kind = "integer" /\ n.value >= 64 /\ n.value <= 1024

\* z.string().email(): one "@" with a name before it, and after it a domain that
\* ends in a dot and at least two letters
IsEmailAddress(str) ==
    LET ats == {k \in 1..Len(str) : str[k] = 64}
        at == CHOOSE k \in ats : TRUE
        letters == (65..90) \cup (97..122)
    IN  /\ Cardinality(ats) = 1
        /\ at > 1
        /\ \A k \in 1..Len(str) : str[k] \notin {32, 9}
        /\ \E d \in (at + 2)..(Len(str) - 2) :
              /\ str[d] = 46
              /\ \A k \in (d + 1)..Len(str) : str[k] \in letters

\* the fields of rawParams that avatarParamsSchema rejects
SchemaIssues(raw) ==
    {f \in {"email", "size", "palette", "engine", "mood", "gender", "format"} :
        CASE f = "email" -> ~IsEmailAddress(raw.email)
          [] f = "size" -> ~SizeAccepted(ToNumber(raw.size))
          [] f = "palette" -> raw.palette \notin {"nes", "gameboy", "pastel"}
          [] f = "engine" -> raw.engine # "procedural"
          [] f = "mood" -> raw.mood \notin {"neutral", "smile", "wink", "surprised", "angry"}
          [] f = "gender" -> raw.gender \notin {"auto", "androgynous", "masc", "fem"}
          [] f = "format" -> raw.format \notin {"svg", "png"}}

\* validationResult.data
SchemaData(raw) == [raw EXCEPT !.size = ToNumber(raw.size).value]

\* validateBackground(bg): "transparent", "pattern" and hex colours pass, any
\* other string becomes "transparent"
validateBackground(bg) ==
    IF bg \in {"transparent", "pattern"} \/ bg \in HexColors THEN bg ELSE "transparent"

\* NextResponse.json({error}, {status})
JsonError(status, error) ==
    [ status |-> status, contentType |-> "application/json",
      body |-> [kind |-> "json", error |-> error] ]

\* "user", "Test@Example.Com" and "a@b"
RequestEmails == { <<>>, <<117, 115, 101, 114>>, TestEmail, <<97, 64, 98>> }

\* "", "64", "100", "63", "1025", "64.5" and "abc"
RequestSizes ==
    { <<>>, <<54, 52>>, <<49, 48, 48>>, <<54, 51>>, <<49, 48, 50, 53>>,
      <<54, 52, 46, 53>>, <<97, 98, 99>> }

Requests ==
    [ email : RequestEmails,
      size : RequestSizes,
      palette : {"", "gameboy", "c64"},
      bg : {"", "red"},
      engine : {"", "ml"},
      mood : {"", "wink", "happy"},
      gender : {"", "robot"},
      seed_salt : {<<>>},
      format : {"", "png", "gif"} ]

\* The default size 256 makes a 256x256 bitmap of the PNG; the requests that
\* reach the encoders name their size.
HandlerInit ==
    /\ PrngIdle /\ SeedIdle /\ PalIdle /\ EngIdle /\ EncIdle /\ BufIdle /\ DefIdle /\ LineIdle
    /\ request \in {r \in Requests : r.size # <<>> \/ r.format # "png"}
    /\ stage = "validate"
    /\ accepted = NoRequest
    /\ reached = <<>>
    /\ work = NoWork
    /\ response = NoResponse

\* const validationResult = avatarParamsSchema.safeParse(rawParams);
\* if (!validationResult.success) return 400
Validate ==
    /\ stage = "validate"
    /\ IF SchemaIssues(RawParams(request)) # {}
       THEN /\ response' = JsonError(400, "Invalid parameters")
            /\ stage' = "done"
            /\ UNCHANGED accepted
       ELSE /\ accepted' = SchemaData(RawParams(request))
            /\ stage' = "requireEmail"
            /\ UNCHANGED response
    /\ UNCHANGED <<request, reached, work, notReqVars>>

\* if (!params.email || params.email.length === 0) return 400
RequireEmail ==
    /\ stage = "requireEmail"
    /\ IF accepted.email = <<>>
       THEN /\ response' = JsonError(400, "Email parameter is required")
            /\ stage' = "done"
       ELSE /\ stage' = "seed"
            /\ UNCHANGED response
    /\ UNCHANGED <<request, accepted, reached, work, notReqVars>>

\* validatedBg = validateBackground(params.bg);
\* seed = emailToSeed(params.email, params.seed_salt)
DeriveSeed ==
    /\ stage = "seed"
    /\ work' = [work EXCEPT !.validatedBg = validateBackground(accepted.bg),
                            !.seed = emailToSeed(accepted.email, accepted.seed_salt)]
    /\ reached' = Append(reached, "emailToSeed")
    /\ stage' = "generate"
    /\ UNCHANGED <<request, accepted, response, notReqVars>>

\* engine = new AvatarEngine(seed, params.palette);
\* buffer = engine.generate(params.mood, params.gender); catch: 500
RunEngine ==
    /\ stage = "generate"
    /\ \E eng \in {AvatarEngineNew(work.seed, accepted.palette)} :
          IF eng.threw
          THEN /\ response' = JsonError(500, "Avatar generation failed")
               /\ reached' = Append(reached, "AvatarEngine")
               /\ stage' = "done"
               /\ UNCHANGED work
          ELSE /\ work' = [work EXCEPT !.buffer =
                              generate(eng, accepted.mood, accepted.gender).buffer]
               /\ reached' = reached \o <<"AvatarEngine", "generate">>
               /\ stage' = "export"
               /\ UNCHANGED response
    /\ UNCHANGED <<request, accepted, notReqVars>>

\* content = toPNG(...) or toSVG(...), returned with its content type; catch: 500
Export ==
    /\ stage = "export"
    /\ \E r \in { IF accepted.format = "png"
                   THEN toPNG(work.buffer, accepted.size, work.validatedBg,
                              accepted.palette)
                   ELSE toSVG(work.buffer, accepted.size, work.validatedBg,
                              accepted.palette) } :
          /\ response' =
                IF r.threw THEN JsonError(500, "Export failed")
                ELSE [ status |-> 200,
                       contentType |-> IF accepted.format = "png" THEN "image/png"
                                       ELSE "image/svg+xml",
                       body |-> r.out ]
          /\ reached' = Append(reached, r.fn)
    /\ stage' = "done"
    /\ UNCHANGED <<request, accepted, work, notReqVars>>

HandlerNext ==
    \/ Validate
    \/ RequireEmail
    \/ DeriveSeed
    \/ RunEngine
    \/ Export

SpecHandler == HandlerInit /\ [][HandlerNext]_vars

\* the request carries a parameter that validation must refuse: a malformed
\* e-mail, a size that is not an integer of 64..1024, or a palette, mood, gender
\* or format that is given and is not one of the recognised names
FailsValidation ==
    \/ ~IsEmailAddress(request.email)
    \/ /\ request.size # <<>>
       /\ request.size \notin {<<54, 52>>, <<49, 48, 48>>}
    \/ request.palette \notin {"", "nes", "gameboy", "pastel"}
    \/ request.mood \notin {"", "neutral", "smile", "wink", "surprised", "angry"}
    \/ request.gender \notin {"", "auto", "androgynous", "masc", "fem"}
    \/ request.format \notin {"", "svg", "png"}

\* C20: a request whose parameters fail validation is answered with status 400
\* and reaches neither seed derivation nor engine construction nor an encoder;
\* the core functions are called only after validation has succeeded.
C20_InvalidRejectedBeforeCore ==
    /\ FailsValidation =>
          /\ reached = <<>>
          /\ work = NoWork
          /\ stage \in {"validate", "done"}
          /\ stage = "done" => response.status = 400
    /\ reached # <<>> =>
          /\ ~FailsValidation
          /\ stage \notin {"validate", "requireEmail"}
          /\ response.status # 400

\* a request answered 400 whose only fault is the size 63
C20_Witness ==
    /\ stage = "done" /\ response.status = 400
    /\ request.size = <<54, 51>>
    /\ request.email = TestEmail
    /\ request.palette = "gameboy" /\ request.mood = "wink" /\ request.format = "png"
    /\ request.gender = "" /\ request.engine = ""

====
